---- MODULE Spec2Model ----
(***************************************************************************)
(* Service registry of the microblog repository                            *)
(* (src/registry_service/app.py) with the discovery helper                 *)
(* (src/registry_service/discovery.py) and the registration client         *)
(* (src/registry_service/client.py).                                       *)
(*                                                                         *)
(* Spec is the registry under arbitrary requests; ClientSpec is the        *)
(* registry used by one service process through the client, with the      *)
(* outcomes of its HTTP calls left open; ClientFairSpec adds the           *)
(* scheduling of the event loops.  RestartSpec, ShutdownSpec and           *)
(* RegisterAgainSpec add the end and restart of the registry process, its  *)
(* shutdown, and repeated registration by one process; LockSpec,           *)
(* ReadLockSpec and FifoLockSpec let other coroutines run around the       *)
(* critical sections.  GatewaySpec is the API gateway (src/gateway.py)     *)
(* and LikesSpec the likes service with its validation worker              *)
(* (src/likes_service), each beside the registry it resolves from.         *)
(*                                                                         *)
(* The registry is one asyncio process.  Every request handler and the     *)
(* background sweeper are coroutines of one event loop: a coroutine runs   *)
(* until it awaits something that suspends.  No critical section of        *)
(* app.py contains an await, so _registry_lock is free whenever a          *)
(* coroutine reaches "async with _registry_lock" and the acquire returns   *)
(* without suspending; a handler therefore runs from its first statement   *)
(* to its return before another coroutine is scheduled: each handler and   *)
(* each sweep pass is one step.                                            *)
(*                                                                         *)
(* Time is the integer clock `now` (seconds, time.time()).  Running a      *)
(* handler takes no model time; asyncio.sleep(CLEANUP_INTERVAL) wakes the  *)
(* sweeper exactly when the interval has elapsed.                          *)
(***************************************************************************)
EXTENDS Integers, Sequences, FiniteSets, TLC

\* ---------------------------------------------------------------- bounds
MaxIds == 2          \* register calls in one behaviour
MaxCo == 2           \* handler coroutines interleaved around _registry_lock
MaxTime == 40        \* last clock value explored
TickStep == 10       \* largest advance of the clock in one step
MaxJobs == 2         \* jobs put on one beanstalkd tube in one behaviour

\* ------------------------------------------------------ program constants
HEARTBEAT_TIMEOUT == 30
CLEANUP_INTERVAL == 10

Services == {"users", "likes"}
\* the addresses of the registering processes: the n-th register request
\* comes from the process at Urls[n], the addresses being reused in turn
\* (a restarted process registers its address again)
Urls == <<"http://a", "http://b/">>
\* a base_url that is not an http or https URL
BadUrls == {"ftp://a"}
CallerUrl(n) == Urls[((n - 1) % Len(Urls)) + 1]
Ids == 1..MaxIds

VARIABLES
    _registry,        \* dict service_name -> list of instance dicts, in key order
    now,              \* time.time()
    uuid_count,       \* number of ids uuid4() has produced
    wake,             \* instant at which the sweeper's asyncio.sleep returns
    resp,             \* response of the handler that has just returned and is being
                      \* sent (for deregister also the service its loop stopped at)
    returned_ids,     \* history: instance_id of every 201 register response, in order
    visible,          \* history: register responses still fresh and not touched by a call on their id
    beat,             \* history: successful heartbeats still within the timeout
    dereg_ok,         \* history: number of 200 deregister responses per id
    swept,            \* history: ids the sweeper has removed
    since_restart,    \* history: id and service of every registration made since the
                      \* registry process was last started
    _registry_lock,   \* _registry_lock.locked()
    co,               \* the handler coroutines that were called and have not left
                      \* their critical section: of each its operation, its
                      \* arguments, its position and the registry its body began on
    serial,           \* history: the registry had each critical section run alone,
                      \* in the order the sections were left
    shutting_down,    \* the registry's server has begun its shutdown
    _waiters,         \* _registry_lock._waiters: the coroutines suspended in
                      \* acquire(), in the order they arrived
    orphans,          \* the running _heartbeat_loop tasks that no attribute refers
                      \* to any more: of each, whether its client is still
                      \* _registry_client, its client's instance_id and its timer
    \* one service process using src/registry_service/client.py
    self_instance_id, \* self.instance_id of its ServiceRegistryClient (0 is None)
    _heartbeat_task,  \* "none" (self._heartbeat_task is None) or where the task running
                      \* _heartbeat_loop is: "sleep", "post" (awaiting client.post), "done"
    _shutdown_event,  \* self._shutdown_event.is_set()
    cancel_requested, \* cancel() was called on the task and CancelledError is still to be thrown into it
    hb_wake,          \* instant at which the loop's asyncio.sleep returns
    caller,           \* where the coroutine calling register_service / deregister_service is
    raised,           \* exception the caller got from its last call ("none": it returned)
    hb_result,        \* what the loop's last client.post gave: a status or an exception
    resolved,         \* the get_service_url call whose result is being returned to its caller
    \* the API gateway of src/gateway.py
    gw,               \* the request the gateway handled last: its route, what the
                      \* resolver gave, the requests sent to backends, the answer
    \* the likes service (src/likes_service) with its Redis and beanstalkd
    likes_post,       \* Redis sets likes:post:{post_id}: the users who like the post
    likes_user,       \* Redis sets likes:user:{username}: the posts the user likes
    likes_score,      \* Redis sorted set likes:score: post_id -> score, members only
    like_validation,  \* tube like_validation: its ready jobs, oldest first
    like_notification, \* tube like_notification: its ready jobs, oldest first
    reserved,         \* the jobs of like_validation reserved and neither deleted nor buried
    buried,           \* the buried jobs of like_validation
    job_count,        \* number of jobs put on like_validation, a job's id being its
                      \* rank among them
    worker            \* validate_post_worker: the job in its variable `job` (id 0: none,
                      \* it is about to reserve), and for the job it handled last the
                      \* resolver's result and the outcome of the post check

cvars == <<self_instance_id, _heartbeat_task, _shutdown_event, cancel_requested,
           hb_wake, caller, raised, hb_result, resolved>>

lvars == <<_registry_lock, co, serial>>

\* the variables of what runs beside the registry and the registered client
pvars == <<orphans, shutting_down, _waiters>>

\* the variables of the services that use the registry
kvars == <<likes_post, likes_user, likes_score, like_validation, like_notification,
           reserved, buried, job_count, worker>>

gvars == <<gw, kvars>>

vars == <<_registry, now, uuid_count, wake, resp,
          returned_ids, visible, beat, dereg_ok, swept, cvars, since_restart, lvars, pvars, gvars>>

\* ------------------------------------------------------------- utilities
Min(a, b) == IF a <= b THEN a ELSE b

MinOf(S) == CHOOSE x \in S : \A y \in S : x <= y

Range(s) == {s[i] : i \in DOMAIN s}

RECURSIVE SumCounts(_)
SumCounts(s) == IF s = <<>> THEN 0 ELSE s[1].count + SumCounts(Tail(s))

\* ------------------------------------------------------- dict operations
\* _registry is a Python dict: a sequence of entries in insertion order.
Keys(reg) == {reg[i].name : i \in DOMAIN reg}

KeyList(reg) == [i \in DOMAIN reg |-> reg[i].name]

Get(reg, s) == reg[CHOOSE i \in DOMAIN reg : reg[i].name = s].instances

SetItem(reg, s, insts) ==
    IF s \in Keys(reg)
    THEN [i \in DOMAIN reg |->
             IF reg[i].name = s THEN [reg[i] EXCEPT !.instances = insts] ELSE reg[i]]
    ELSE Append(reg, [name |-> s, instances |-> insts])

DelItem(reg, s) ==
    LET Other(e) == e.name # s
    IN  SelectSeq(reg, Other)

AllInstances(reg) == UNION {Range(reg[i].instances) : i \in DOMAIN reg}

StoredIds(reg) == {inst.instance_id : inst \in AllInstances(reg)}

\* ------------------------------------------------------------- responses
NoResp == [op |-> "none", status |-> 0, instance_id |-> 0, service_name |-> "",
           base_url |-> "", at |-> 0, instances |-> <<>>, services |-> <<>>,
           total_services |-> 0, total_instances |-> 0]

\* the users and posts of the likes service's requests
Usernames == {"alice", "bob"}
PostIds == {1}

\* no job of like_validation
NoJob == [id |-> 0, post_id |-> 0, username |-> ""]

\* validate_post_worker at the head of its loop, no job handled yet
AtReserve == [job |-> NoJob, resolved |-> "", check |-> ""]

\* the gateway has handled no request
NoExchange == [route |-> "none", service_name |-> "", outcome |-> "", resolved |-> "",
               sent |-> <<>>, status |-> 0]

\* the response of a handler that read the clock at current_time
Reply(op, st, s, u, id, current_time) ==
    [NoResp EXCEPT !.op = op, !.status = st, !.at = current_time,
                   !.instance_id = id, !.service_name = s, !.base_url = u]

\* faulty variant: one id generated once and handed to every registration
uuid4_fixed(n) == 1

\* str(uuid4()): the n-th id the generator produces
uuid4(n) == n + 1

\* no get_service_url call is returning
Unset == [o |-> "none", service_name |-> "", result |-> ""]

Init ==
    /\ self_instance_id = 0
    /\ _heartbeat_task = "none"
    /\ _shutdown_event = FALSE
    /\ cancel_requested = FALSE
    /\ hb_wake = 0
    /\ caller = "start"
    /\ raised = "none"
    /\ hb_result = "none"
    /\ resolved = Unset
    /\ _registry = <<>>
    /\ now = 0
    /\ uuid_count = 0
    /\ wake = CLEANUP_INTERVAL
    /\ resp = NoResp
    /\ returned_ids = <<>>
    /\ visible = {}
    /\ beat = {}
    /\ dereg_ok = [i \in Ids |-> 0]
    /\ swept = {}
    /\ since_restart = {}
    /\ _registry_lock = FALSE
    /\ co = {}
    /\ serial = <<>>
    /\ orphans = {}
    /\ shutting_down = FALSE
    /\ _waiters = <<>>
    /\ gw = NoExchange
    /\ likes_post = [p \in PostIds |-> {}]
    /\ likes_user = [u \in Usernames |-> {}]
    /\ likes_score = <<>>
    /\ like_validation = <<>>
    /\ like_notification = <<>>
    /\ reserved = {}
    /\ buried = {}
    /\ job_count = 0
    /\ worker = AtReserve

\* The clock advances while the event loop is idle; the sweeper's timer is
\* not overrun.
Tick ==
    /\ resp = NoResp
    /\ now < wake
    /\ _heartbeat_task = "sleep" => now < hb_wake
    /\ _heartbeat_task # "post"
    /\ ~cancel_requested
    /\ caller \notin {"await_task", "delete"}
    /\ co = {}
    /\ \A l \in orphans : now < l.hb_wake
    /\ LET t == MinOf({now + TickStep, wake}
                      \cup (IF _heartbeat_task = "sleep" THEN {hb_wake} ELSE {})
                      \cup {l.hb_wake : l \in orphans})
       IN  /\ t <= MaxTime
           /\ now' = t
           /\ visible' = {v \in visible : t - v.at < HEARTBEAT_TIMEOUT}
           /\ beat' = {b \in beat : t - b.at < HEARTBEAT_TIMEOUT}
    /\ UNCHANGED <<gvars, pvars, _registry, uuid_count, wake, resp, returned_ids, dereg_ok, swept, cvars, since_restart, lvars>>

\* The handler's return value (or HTTPException) has been sent to the
\* caller; the event loop takes the next request or timer.
send_response ==
    /\ resp # NoResp
    /\ resp' = NoResp
    /\ UNCHANGED <<gvars, pvars, _registry, now, uuid_count, wake,
                   returned_ids, visible, beat, dereg_ok, swept, cvars, since_restart, lvars>>

\* ---------------------------------------------------------------- register
\* str(registration.base_url): base_url is parsed as a pydantic HttpUrl
\* (pydantic 2, as the conlist(min_length=...) and from_attributes of the
\* schemas show), whose string form has the path "/" when the URL was
\* given without a path.
IsHttp(u) == Len(u) > 7 /\ SubSeq(u, 1, 7) = "http://"

IsHttps(u) == Len(u) > 8 /\ SubSeq(u, 1, 8) = "https://"

\* faulty variant: base_url is accepted whatever it is
HttpUrl_valid_any(u) == TRUE

\* the validation of the request body (ServiceRegistration.base_url is an
\* HttpUrl): the scheme is http or https and a host follows it
HttpUrl_valid(u) == IsHttp(u) \/ IsHttps(u)

HasPath(u) == \E k \in (IF IsHttps(u) THEN 9 ELSE 8)..Len(u) : SubSeq(u, k, k) = "/"

HttpUrl_str(u) == IF HasPath(u) THEN u ELSE u \o "/"

instance_data(instance_id, service_name, base_url, current_time) ==
    [instance_id |-> instance_id, service_name |-> service_name,
     base_url |-> HttpUrl_str(base_url), registered_at |-> current_time,
     last_heartbeat |-> current_time]

\* faulty variant: the instance is appended twice
register_locked_twice(reg, inst) ==
    LET reg1 == IF inst.service_name \notin Keys(reg)
                THEN SetItem(reg, inst.service_name, <<>>)
                ELSE reg
    IN  SetItem(reg1, inst.service_name,
                Append(Append(Get(reg1, inst.service_name), inst), inst))

\* faulty variant: the service's list is replaced instead of appended to
register_locked_overwrite(reg, inst) ==
    SetItem(reg, inst.service_name, <<inst>>)

\* faulty variant: the new instance is inserted at the head of the list
register_locked_prepend(reg, inst) ==
    LET reg1 == IF inst.service_name \notin Keys(reg)
                THEN SetItem(reg, inst.service_name, <<>>)
                ELSE reg
    IN  SetItem(reg1, inst.service_name, <<inst>> \o Get(reg1, inst.service_name))

register_locked(reg, inst) ==
    LET reg1 == IF inst.service_name \notin Keys(reg)
                THEN SetItem(reg, inst.service_name, <<>>)
                ELSE reg
    IN  SetItem(reg1, inst.service_name, Append(Get(reg1, inst.service_name), inst))

\* a request whose body does not validate is answered 422 by FastAPI and
\* the handler is not called; the answer names the rejected value
register_service(service_name, base_url) ==
    /\ resp = NoResp
    /\ IF HttpUrl_valid(base_url)
       THEN /\ uuid_count < MaxIds
            /\ LET instance_id == uuid4(uuid_count)
                   current_time == now
               IN  /\ _registry' = register_locked(_registry,
                                      instance_data(instance_id, service_name, base_url,
                                                    current_time))
                   /\ resp' = Reply("register", 201, service_name, HttpUrl_str(base_url),
                                    instance_id, current_time)
                   /\ returned_ids' = Append(returned_ids, instance_id)
                   /\ visible' = visible \cup
                                   {[instance_id |-> instance_id,
                                     service_name |-> service_name,
                                     base_url |-> base_url, at |-> current_time]}
                   /\ since_restart' = since_restart \cup
                           {[instance_id |-> instance_id, service_name |-> service_name]}
            /\ uuid_count' = uuid_count + 1
       ELSE /\ resp' = Reply("register", 422, "", base_url, 0, now)
            /\ UNCHANGED <<_registry, uuid_count, returned_ids, visible, since_restart>>
    /\ UNCHANGED <<gvars, pvars, now, wake, beat, dereg_ok, swept, cvars, lvars>>

\* --------------------------------------------------------------- heartbeat
\* positions <<i, j>> of the instances carrying id, in scan order
Matches(reg, id) ==
    {<<i, j>> \in (DOMAIN reg) \X (1..MaxIds + 1) :
        j \in DOMAIN reg[i].instances /\ reg[i].instances[j].instance_id = id}

\* faulty variant: every instance of the service of the instance is refreshed
heartbeat_locked_service(reg, id, t) ==
    LET M == Matches(reg, id)
    IN  IF M = {}
        THEN [reg |-> reg, found |-> FALSE]
        ELSE LET p == CHOOSE p \in M : \A q \in M :
                          p[1] < q[1] \/ (p[1] = q[1] /\ p[2] <= q[2])
             IN  [reg |-> [reg EXCEPT ![p[1]].instances =
                              [j \in DOMAIN @ |-> [@[j] EXCEPT !.last_heartbeat = t]]],
                  found |-> TRUE]

\* faulty variant: a heartbeat for an id that is not stored creates an entry
heartbeat_locked_upsert(reg, id, t) ==
    LET M == Matches(reg, id)
    IN  IF M = {}
        THEN [reg |-> register_locked(reg, instance_data(id, "users", "http://a", t)),
              found |-> TRUE]
        ELSE LET p == CHOOSE p \in M : \A q \in M :
                          p[1] < q[1] \/ (p[1] = q[1] /\ p[2] <= q[2])
             IN  [reg |-> [reg EXCEPT ![p[1]].instances[p[2]].last_heartbeat = t],
                  found |-> TRUE]

\* faulty variant: the instance is found but last_heartbeat is not written
heartbeat_locked_no_write(reg, id, t) ==
    [reg |-> reg, found |-> Matches(reg, id) # {}]

\* faulty variant: the 404 for an unknown id is missing
heartbeat_locked_no_404(reg, id, t) ==
    LET M == Matches(reg, id)
    IN  IF M = {}
        THEN [reg |-> reg, found |-> TRUE]
        ELSE LET p == CHOOSE p \in M : \A q \in M :
                          p[1] < q[1] \/ (p[1] = q[1] /\ p[2] <= q[2])
             IN  [reg |-> [reg EXCEPT ![p[1]].instances[p[2]].last_heartbeat = t],
                  found |-> TRUE]

\* the nested for loops of heartbeat: the first match is updated, then break
heartbeat_locked(reg, id, t) ==
    LET M == Matches(reg, id)
    IN  IF M = {}
        THEN [reg |-> reg, found |-> FALSE]
        ELSE LET p == CHOOSE p \in M : \A q \in M :
                          p[1] < q[1] \/ (p[1] = q[1] /\ p[2] <= q[2])
             IN  [reg |-> [reg EXCEPT ![p[1]].instances[p[2]].last_heartbeat = t],
                  found |-> TRUE]

heartbeat(instance_id) ==
    LET current_time == now
        r == heartbeat_locked(_registry, instance_id, current_time)
    IN  /\ resp = NoResp
        /\ _registry' = r.reg
        /\ resp' = Reply("heartbeat", IF r.found THEN 200 ELSE 404, "", "",
                         instance_id, current_time)
        /\ visible' = {v \in visible : v.instance_id # instance_id}
        /\ beat' = IF r.found
                   THEN {b \in beat : b.instance_id # instance_id} \cup
                        {[instance_id |-> instance_id, at |-> current_time]}
                   ELSE beat
        /\ UNCHANGED <<gvars, pvars, now, uuid_count, wake, returned_ids, dereg_ok, swept, cvars, since_restart, lvars>>

\* -------------------------------------------------------------- deregister
\* the loop of deregister_service over list(_registry.keys()), from key k on
RECURSIVE deregister_scan(_, _, _, _)
deregister_scan(reg, keys, k, id) ==
    IF k > Len(keys)
    THEN [reg |-> reg, found |-> FALSE, service_name |-> ""]
    ELSE LET service_name == keys[k]
             instances == Get(reg, service_name)
             Keep(inst) == inst.instance_id # id
             kept == SelectSeq(instances, Keep)
             had == \E j \in DOMAIN instances : instances[j].instance_id = id
             reg1 == SetItem(reg, service_name, kept)
         IN  IF kept # <<>> /\ had
             THEN [reg |-> reg1, found |-> TRUE, service_name |-> service_name]
             ELSE IF kept = <<>>
                  THEN IF had
                       THEN [reg |-> DelItem(reg1, service_name), found |-> TRUE,
                             service_name |-> service_name]
                       ELSE deregister_scan(DelItem(reg1, service_name), keys, k + 1, id)
                  ELSE deregister_scan(reg1, keys, k + 1, id)

\* faulty variant: the whole service of the instance is removed
deregister_locked_drop_service(reg, id) ==
    LET r == deregister_scan(reg, KeyList(reg), 1, id)
    IN  IF r.found THEN [r EXCEPT !.reg = DelItem(r.reg, r.service_name)] ELSE r

\* faulty variant: the key of a service left without instances is kept
deregister_locked_keep_key(reg, id) ==
    LET r == deregister_scan(reg, KeyList(reg), 1, id)
    IN  IF r.found /\ r.service_name \notin Keys(r.reg)
        THEN [r EXCEPT !.reg = SetItem(r.reg, r.service_name, <<>>)]
        ELSE r

\* faulty variant: the 404 for an unknown id is missing
deregister_locked_always_ok(reg, id) ==
    [deregister_scan(reg, KeyList(reg), 1, id) EXCEPT !.found = TRUE]

deregister_locked(reg, id) == deregister_scan(reg, KeyList(reg), 1, id)

deregister_service(instance_id) ==
    LET r == deregister_locked(_registry, instance_id)
    IN  /\ resp = NoResp
        /\ _registry' = r.reg
        /\ resp' = Reply("deregister", IF r.found THEN 200 ELSE 404,
                         r.service_name, "", instance_id, now)
        /\ visible' = {v \in visible : v.instance_id # instance_id}
        /\ beat' = IF r.found
                   THEN {b \in beat : b.instance_id # instance_id}
                   ELSE beat
        /\ dereg_ok' = IF r.found
                       THEN [dereg_ok EXCEPT ![instance_id] = @ + 1]
                       ELSE dereg_ok
        /\ UNCHANGED <<gvars, pvars, now, uuid_count, wake, returned_ids, swept, cvars, since_restart, lvars>>

\* ----------------------------------------------------------------- sweeper
\* faulty variant: a service with a stale instance is removed as a whole
cleanup_locked_whole_service(reg, current_time) ==
    LET Fresh(inst) == current_time - inst.last_heartbeat < HEARTBEAT_TIMEOUT
        AllFresh(e) == \A j \in DOMAIN e.instances : Fresh(e.instances[j])
    IN  SelectSeq(reg, AllFresh)

\* faulty variant: an instance exactly HEARTBEAT_TIMEOUT old is kept
cleanup_locked_inclusive(reg, current_time) ==
    LET Fresh(inst) == current_time - inst.last_heartbeat <= HEARTBEAT_TIMEOUT
        filtered == [i \in DOMAIN reg |->
                        [reg[i] EXCEPT !.instances = SelectSeq(@, Fresh)]]
        NonEmpty(e) == e.instances # <<>>
    IN  SelectSeq(filtered, NonEmpty)

\* faulty variant: the pass tests the age of the registration
cleanup_locked_registered_at(reg, current_time) ==
    LET Fresh(inst) == current_time - inst.registered_at < HEARTBEAT_TIMEOUT
        filtered == [i \in DOMAIN reg |->
                        [reg[i] EXCEPT !.instances = SelectSeq(@, Fresh)]]
        NonEmpty(e) == e.instances # <<>>
    IN  SelectSeq(filtered, NonEmpty)

\* faulty variant: the pass removes an instance one interval early
cleanup_locked_early(reg, current_time) ==
    LET Fresh(inst) == current_time - inst.last_heartbeat
                           < HEARTBEAT_TIMEOUT - CLEANUP_INTERVAL
        filtered == [i \in DOMAIN reg |->
                        [reg[i] EXCEPT !.instances = SelectSeq(@, Fresh)]]
        NonEmpty(e) == e.instances # <<>>
    IN  SelectSeq(filtered, NonEmpty)

\* one pass over list(_registry.keys())
cleanup_locked(reg, current_time) ==
    LET Fresh(inst) == current_time - inst.last_heartbeat < HEARTBEAT_TIMEOUT
        filtered == [i \in DOMAIN reg |->
                        [reg[i] EXCEPT !.instances = SelectSeq(@, Fresh)]]
        NonEmpty(e) == e.instances # <<>>
    IN  SelectSeq(filtered, NonEmpty)

\* one iteration of the loop of cleanup_stale_instances: the sleep has
\* returned, the pass runs, the next sleep starts
cleanup_stale_instances ==
    /\ resp = NoResp
    /\ now >= wake
    /\ LET current_time == now
       IN  _registry' = cleanup_locked(_registry, current_time)
    /\ swept' = swept \cup (StoredIds(_registry) \ StoredIds(_registry'))
    /\ wake' = now + CLEANUP_INTERVAL
    /\ UNCHANGED <<gvars, pvars, now, uuid_count, resp, returned_ids, visible, beat, dereg_ok, cvars, since_restart, lvars>>

\* ---------------------------------------------------------- read handlers
\* faulty variant: a read evicts what it filters out
reads_locked_evict(reg, current_time) == cleanup_locked(reg, current_time)

\* _registry after the critical section of a read handler
\* (get_service_instances, list_all_services, get_registry_status): the
\* filtered lists are new lists and nothing is assigned or deleted
reads_locked(reg, current_time) == reg

\* A ServiceInstance of a response carries the stored instance_id,
\* service_name and base_url, and the two instants as ISO timestamps, kept
\* here as the clock values they were taken at.
\* faulty variant: an instance exactly HEARTBEAT_TIMEOUT old is returned
get_locked_inclusive(reg, service_name, current_time) ==
    IF service_name \notin Keys(reg)
    THEN [status |-> 404, instances |-> <<>>]
    ELSE LET Fresh(inst) == current_time - inst.last_heartbeat <= HEARTBEAT_TIMEOUT
             instances == SelectSeq(Get(reg, service_name), Fresh)
         IN  IF instances = <<>>
             THEN [status |-> 404, instances |-> <<>>]
             ELSE [status |-> 200, instances |-> instances]

\* the body of get_service_instances: 404 or the active instances
get_locked(reg, service_name, current_time) ==
    IF service_name \notin Keys(reg)
    THEN [status |-> 404, instances |-> <<>>]
    ELSE LET Fresh(inst) == current_time - inst.last_heartbeat < HEARTBEAT_TIMEOUT
             instances == SelectSeq(Get(reg, service_name), Fresh)
         IN  IF instances = <<>>
             THEN [status |-> 404, instances |-> <<>>]
             ELSE [status |-> 200, instances |-> instances]

get_service_instances(service_name) ==
    LET current_time == now
        r == get_locked(_registry, service_name, current_time)
    IN  /\ resp = NoResp
        /\ resp' = [Reply("get", r.status, service_name, "", 0, current_time)
                       EXCEPT !.instances = r.instances]
        /\ _registry' = reads_locked(_registry, current_time)
        /\ UNCHANGED <<gvars, pvars, now, uuid_count, wake,
                       returned_ids, visible, beat, dereg_ok, swept, cvars, since_restart, lvars>>

\* faulty variant: a service without active instance is listed, empty
list_all_locked_keep_empty(reg, current_time) ==
    LET Fresh(inst) == current_time - inst.last_heartbeat < HEARTBEAT_TIMEOUT
    IN  [i \in DOMAIN reg |->
            LET active_instances == SelectSeq(reg[i].instances, Fresh)
            IN  [service_name |-> reg[i].name,
                 instances |-> active_instances,
                 count |-> Len(active_instances)]]

\* the result dict of list_all_services, in key order
list_all_locked(reg, current_time) ==
    LET Fresh(inst) == current_time - inst.last_heartbeat < HEARTBEAT_TIMEOUT
        entries == [i \in DOMAIN reg |->
                       LET active_instances == SelectSeq(reg[i].instances, Fresh)
                       IN  [service_name |-> reg[i].name,
                            instances |-> active_instances,
                            count |-> Len(active_instances)]]
        Listed(e) == e.instances # <<>>
    IN  SelectSeq(entries, Listed)

list_all_services ==
    LET current_time == now
    IN  /\ resp = NoResp
        /\ resp' = [Reply("list", 200, "", "", 0, current_time) EXCEPT
                       !.services = list_all_locked(_registry, current_time)]
        /\ _registry' = reads_locked(_registry, current_time)
        /\ UNCHANGED <<gvars, pvars, now, uuid_count, wake,
                       returned_ids, visible, beat, dereg_ok, swept, cvars, since_restart, lvars>>

\* faulty variant: total_instances is the number of stored instances
status_locked_total_stored(reg, current_time) ==
    LET Fresh(inst) == current_time - inst.last_heartbeat < HEARTBEAT_TIMEOUT
        entries == [i \in DOMAIN reg |->
                       [service_name |-> reg[i].name,
                        instances |-> <<>>,
                        count |-> Len(SelectSeq(reg[i].instances, Fresh))]]
        Counted(e) == e.count > 0
        services_dict == SelectSeq(entries, Counted)
    IN  [services |-> services_dict,
         total_services |-> Len(services_dict),
         total_instances |-> Cardinality(AllInstances(reg))]

\* faulty variant: every stored instance is counted, stale or not
status_locked_all(reg, current_time) ==
    LET entries == [i \in DOMAIN reg |->
                       [service_name |-> reg[i].name,
                        instances |-> <<>>,
                        count |-> Len(reg[i].instances)]]
        Counted(e) == e.count > 0
        services_dict == SelectSeq(entries, Counted)
    IN  [services |-> services_dict,
         total_services |-> Len(services_dict),
         total_instances |-> SumCounts(services_dict)]

\* services_dict and the totals of get_registry_status
status_locked(reg, current_time) ==
    LET Fresh(inst) == current_time - inst.last_heartbeat < HEARTBEAT_TIMEOUT
        entries == [i \in DOMAIN reg |->
                       [service_name |-> reg[i].name,
                        instances |-> <<>>,
                        count |-> Len(SelectSeq(reg[i].instances, Fresh))]]
        Counted(e) == e.count > 0
        services_dict == SelectSeq(entries, Counted)
    IN  [services |-> services_dict,
         total_services |-> Len(services_dict),
         total_instances |-> SumCounts(services_dict)]

get_registry_status ==
    LET current_time == now
        r == status_locked(_registry, current_time)
    IN  /\ resp = NoResp
        /\ resp' = [Reply("status", 200, "", "", 0, current_time) EXCEPT
                       !.services = r.services,
                       !.total_services = r.total_services,
                       !.total_instances = r.total_instances]
        /\ _registry' = reads_locked(_registry, current_time)
        /\ UNCHANGED <<gvars, pvars, now, uuid_count, wake,
                       returned_ids, visible, beat, dereg_ok, swept, cvars, since_restart, lvars>>

\* --------------------------------------------------------------- discovery
None == "None"

\* what the caller of get_service_url gets when the function raises
HTTPStatusError == "HTTPStatusError"

\* what can happen to the GET of get_service_url: the registry's answer r
\* arrives ("ok"), the answer arrives with a body that is not the expected
\* JSON ("malformed"), a non-404 error status arrives in place of the
\* handler's answer ("status_error", e.g. 500), or httpx raises
\* ConnectError or a timeout
GetOutcomes == {"ok", "malformed", "status_error", "connect_error", "timeout"}

\* faulty variant: the last instance of the list is returned
get_service_url_last(o, r) ==
    IF o \in {"connect_error", "timeout"}
    THEN None
    ELSE IF o = "status_error"
         THEN HTTPStatusError
         ELSE IF r.status = 404
              THEN None
              ELSE IF o = "malformed"
                   THEN None
                   ELSE IF r.instances = <<>>
                        THEN None
                        ELSE r.instances[Len(r.instances)].base_url

\* faulty variant: a non-404 error status is not re-raised
get_service_url_no_raise(o, r) ==
    IF o \in {"connect_error", "timeout", "status_error"}
    THEN None
    ELSE IF r.status = 404
         THEN None
         ELSE IF o = "malformed"
              THEN None
              ELSE IF r.instances = <<>>
                   THEN None
                   ELSE r.instances[1].base_url

\* get_service_url for the outcome o of its GET /services/{service_name},
\* r being the registry's answer: an exception of httpx other than
\* HTTPStatusError gives None, raise_for_status() raises for 404 (None) and
\* for any other error status (re-raised), a body that json() or the
\* indexing rejects gives None, else the first instance's base_url
get_service_url(o, r) ==
    IF o \in {"connect_error", "timeout"}
    THEN None
    ELSE IF o = "status_error"
         THEN HTTPStatusError
         ELSE IF r.status = 404
              THEN None
              ELSE IF o = "malformed"
                   THEN None
                   ELSE IF r.instances = <<>>
                        THEN None
                        ELSE r.instances[1].base_url

Next ==
    \/ Tick
    \/ send_response
    \/ \E s \in Services : \E u \in {CallerUrl(uuid_count + 1)} \cup BadUrls :
           register_service(s, u)
    \/ \E id \in Ids : heartbeat(id)
    \/ \E id \in Ids : deregister_service(id)
    \/ \E s \in Services : get_service_instances(s)
    \/ list_all_services
    \/ get_registry_status
    \/ cleanup_stale_instances

Spec == Init /\ [][Next]_vars

\* ----------------------------------------------------------------- restart
\* faulty variant: the registry is saved and loaded again at start
restart_registry_persist(reg) == reg

\* _registry of a newly started registry process: the module-level dict is
\* created empty and nothing is loaded into it
restart_registry(reg) == <<>>

\* The registry process ends between two requests and is started again:
\* the module is loaded anew and startup() creates the sweeper task, whose
\* first sleep begins.  Ids of the former process are not issued again.
registry_restart ==
    /\ resp = NoResp
    /\ _registry' = restart_registry(_registry)
    /\ wake' = now + CLEANUP_INTERVAL
    /\ since_restart' = {}
    /\ visible' = {}
    /\ beat' = {}
    /\ shutting_down' = FALSE
    /\ UNCHANGED <<gvars, orphans, _waiters, now, uuid_count, resp, returned_ids, dereg_ok, swept, cvars, lvars>>

RestartNext ==
    \/ Next
    \/ registry_restart

RestartSpec == Init /\ [][RestartNext]_vars

\* ---------------------------------------------------------------- shutdown
\* whether the task of cleanup_stale_instances has been stopped: startup()
\* keeps no reference to the task it creates, the application has no
\* handler of the "shutdown" event, and the coroutine tests nothing in its
\* "while True", so nothing stops it before the event loop is closed
sweeper_stopped(shutdown) == FALSE

\* the sleep of the sweeper returns while the server is shutting down (the
\* event loop runs until the requests in flight are answered)
cleanup_stale_instances_at_shutdown ==
    /\ shutting_down
    /\ ~sweeper_stopped(shutting_down)
    /\ cleanup_stale_instances

\* The server begins its shutdown: the handlers of the "shutdown" event
\* run, of which the application has none.
registry_shutdown ==
    /\ resp = NoResp
    /\ ~shutting_down
    /\ shutting_down' = TRUE
    /\ UNCHANGED <<gvars, _registry, now, uuid_count, wake, resp, returned_ids, visible, beat,
                   dereg_ok, swept, cvars, since_restart, lvars, orphans, _waiters>>

\* the registry with its sweeper, from its start to the end of its
\* process and its next start
ShutdownNext ==
    \/ Tick
    \/ send_response
    \/ \E s \in Services : register_service(s, CallerUrl(uuid_count + 1))
    \/ \E id \in Ids : heartbeat(id)
    \/ \E s \in Services : get_service_instances(s)
    \/ ~shutting_down /\ cleanup_stale_instances
    \/ cleanup_stale_instances_at_shutdown
    \/ registry_shutdown
    \/ shutting_down /\ registry_restart

ShutdownSpec == Init /\ [][ShutdownNext]_vars

\* ------------------------------------------------------------ _registry_lock
\* The four writers of _registry, followed through "async with
\* _registry_lock": a coroutine is called, waits for the lock, enters its
\* critical section and leaves it.  Other coroutines may run between any two
\* of these steps, also between entering and leaving, which is more than
\* the event loop does (it switches only at an await): what keeps a second
\* coroutine out of a section is the lock alone.  The responses, and the
\* histories of responses, are those of the handlers above and are not
\* followed here.
Writers == {"register", "heartbeat", "deregister", "sweep"}

\* the service the interleaved register calls are for: the calls meet in
\* one list of instances
LockServices == {"users"}

\* faulty variant: acquire() returns at once, whoever holds the lock
lock_free_always(lock) == TRUE

\* Lock.locked() is false: acquire() returns without waiting
lock_free(lock) == lock = FALSE

\* the body of the "async with" block of the handler k.op, begun on
\* registry reg: the registry it leaves
critical_section(k, reg) ==
    CASE k.op = "register" ->
             register_locked(reg, instance_data(k.instance_id, k.service_name,
                                                CallerUrl(k.instance_id), k.current_time))
      [] k.op = "heartbeat" -> heartbeat_locked(reg, k.instance_id, k.current_time).reg
      [] k.op = "deregister" -> deregister_locked(reg, k.instance_id).reg
      [] k.op = "sweep" -> cleanup_locked(reg, k.current_time)

\* a request arrives, or the sweeper's sleep returns: the handler runs up
\* to its "async with"; uuid4() and time.time() are called before it.
\* acquire() of a free lock returns without a switch to another coroutine,
\* so the coroutine is then inside its section; otherwise it waits.
co_call(op, service_name, id) ==
    LET free == lock_free(_registry_lock)
        k == [pc |-> IF free THEN "locked" ELSE "wait", op |-> op,
              service_name |-> IF op = "register" THEN service_name ELSE "",
              instance_id |-> CASE op = "register" -> uuid4(uuid_count)
                                [] op = "sweep" -> 0
                                [] OTHER -> id,
              current_time |-> IF op = "deregister" THEN 0 ELSE now,
              seen |-> IF free THEN _registry ELSE <<>>]
    IN  /\ resp = NoResp
        /\ Cardinality(co) < MaxCo
        /\ k \notin co
        /\ op = "register" => uuid_count < MaxIds
        /\ op \in {"heartbeat", "deregister"} => id <= uuid_count
        /\ op = "sweep" => (now >= wake /\ \A d \in co : d.op # "sweep")
        /\ co' = co \cup {k}
        /\ _registry_lock' = TRUE
        /\ uuid_count' = IF op = "register" THEN uuid_count + 1 ELSE uuid_count
        /\ UNCHANGED <<gvars, pvars, _registry, now, wake, resp, returned_ids, visible, beat, dereg_ok,
                       swept, cvars, since_restart, serial>>

\* a waiting coroutine is woken after a release: it holds the lock and its
\* body begins on the registry as it is
co_acquire(k) ==
    /\ k.pc = "wait"
    /\ lock_free(_registry_lock)
    /\ _registry_lock' = TRUE
    /\ co' = (co \ {k}) \cup {[k EXCEPT !.pc = "locked", !.seen = _registry]}
    /\ UNCHANGED <<gvars, pvars, _registry, now, uuid_count, wake, resp, returned_ids, visible, beat,
                   dereg_ok, swept, cvars, since_restart, serial>>

\* the body has run and __aexit__ releases the lock; the sweeper then
\* begins its next sleep
co_release(k) ==
    /\ k.op \in Writers
    /\ k.pc = "locked"
    /\ _registry' = critical_section(k, k.seen)
    /\ serial' = critical_section(k, serial)
    /\ _registry_lock' = FALSE
    /\ co' = co \ {k}
    /\ wake' = IF k.op = "sweep" THEN now + CLEANUP_INTERVAL ELSE wake
    /\ UNCHANGED <<gvars, pvars, now, uuid_count, resp, returned_ids, visible, beat, dereg_ok,
                   swept, cvars, since_restart>>

LockNext ==
    \/ Tick
    \/ \E op \in Writers : \E s \in LockServices : \E id \in Ids : co_call(op, s, id)
    \/ \E k \in co : co_acquire(k)
    \/ \E k \in co : co_release(k)

LockSpec == Init /\ [][LockNext]_vars

\* The three read handlers, followed through their "async with
\* _registry_lock" in the same way.
Reads == {"get", "list", "status"}

\* a GET arrives: time.time() is called and the lock asked for
co_read_call(op, service_name) ==
    LET free == lock_free(_registry_lock)
        k == [pc |-> IF free THEN "locked" ELSE "wait", op |-> op,
              service_name |-> IF op = "get" THEN service_name ELSE "",
              instance_id |-> 0,
              current_time |-> now,
              seen |-> IF free THEN _registry ELSE <<>>]
    IN  /\ resp = NoResp
        /\ Cardinality(co) < MaxCo
        /\ k \notin co
        /\ co' = co \cup {k}
        /\ _registry_lock' = TRUE
        /\ UNCHANGED <<gvars, pvars, _registry, now, uuid_count, wake, resp, returned_ids, visible,
                       beat, dereg_ok, swept, cvars, since_restart, serial>>

\* inside the "async with" block: the comprehension over the instances
\* applies the liveness test and the ServiceInstance objects (or the
\* counts) of the response are built
co_read_filter(k) ==
    /\ k.op \in Reads
    /\ k.pc = "locked"
    /\ co' = (co \ {k}) \cup {[k EXCEPT !.pc = "filtered"]}
    /\ UNCHANGED <<gvars, pvars, _registry, now, uuid_count, wake, resp, returned_ids, visible,
                   beat, dereg_ok, swept, cvars, since_restart, _registry_lock, serial>>

\* the block is left (by its end or by the HTTPException of
\* get_service_instances) and __aexit__ releases the lock; what remains is
\* the return statement
co_read_release(k) ==
    /\ k.op \in Reads
    /\ k.pc = "filtered"
    /\ _registry' = reads_locked(_registry, k.current_time)
    /\ serial' = reads_locked(serial, k.current_time)
    /\ _registry_lock' = FALSE
    /\ co' = co \ {k}
    /\ UNCHANGED <<gvars, pvars, now, uuid_count, wake, resp, returned_ids, visible, beat,
                   dereg_ok, swept, cvars, since_restart>>

ReadLockNext ==
    \/ Tick
    \/ \E op \in Writers : \E s \in LockServices : \E id \in Ids : co_call(op, s, id)
    \/ \E op \in Reads : \E s \in LockServices : co_read_call(op, s)
    \/ \E k \in co : co_acquire(k)
    \/ \E k \in co : co_release(k)
    \/ \E k \in co : co_read_filter(k)
    \/ \E k \in co : co_read_release(k)

ReadLockSpec == Init /\ [][ReadLockNext]_vars

\* register and heartbeat followed through the lock with the clock running:
\* time.time() is read before "async with _registry_lock", and a coroutine
\* that finds the lock taken is suspended in acquire() while the clock
\* advances.  asyncio.Lock wakes its waiters in the order they arrived.

\* faulty variant: a free lock is taken whoever waits for it
acquire_at_once_barging(lock, waiters) == lock_free(lock)

\* acquire() returns without suspending: the lock is free and no coroutine
\* waits for it
acquire_at_once(lock, waiters) == lock_free(lock) /\ waiters = <<>>

\* a POST /register or POST /heartbeat/{id} arrives: uuid4() and
\* time.time() are called, then acquire()
fifo_call(op, service_name, id) ==
    LET k == [pc |-> "wait", op |-> op,
              service_name |-> IF op = "register" THEN service_name ELSE "",
              instance_id |-> IF op = "register" THEN uuid4(uuid_count) ELSE id,
              current_time |-> now,
              seen |-> <<>>]
    IN  /\ resp = NoResp
        /\ Cardinality(co) + Len(_waiters) < MaxCo
        /\ op = "register" => uuid_count < MaxIds
        /\ op = "heartbeat" => id <= uuid_count
        /\ IF acquire_at_once(_registry_lock, _waiters)
           THEN /\ co' = co \cup {[k EXCEPT !.pc = "locked", !.seen = _registry]}
                /\ _registry_lock' = TRUE
                /\ _waiters' = _waiters
           ELSE /\ _waiters' = Append(_waiters, k)
                /\ UNCHANGED <<co, _registry_lock>>
        /\ uuid_count' = IF op = "register" THEN uuid_count + 1 ELSE uuid_count
        /\ UNCHANGED <<gvars, orphans, shutting_down, _registry, now, wake, resp, returned_ids,
                       visible, beat, dereg_ok, swept, cvars, since_restart, serial>>

\* release() has woken the first waiter: it holds the lock and its body
\* begins
fifo_acquire ==
    /\ lock_free(_registry_lock)
    /\ _waiters # <<>>
    /\ _registry_lock' = TRUE
    /\ co' = co \cup {[Head(_waiters) EXCEPT !.pc = "locked", !.seen = _registry]}
    /\ _waiters' = Tail(_waiters)
    /\ UNCHANGED <<gvars, orphans, shutting_down, _registry, now, uuid_count, wake, resp,
                   returned_ids, visible, beat, dereg_ok, swept, cvars, since_restart,
                   serial>>

\* the clock advances while coroutines are at the lock
fifo_tick ==
    /\ co # {} \/ _waiters # <<>>
    /\ now < wake
    /\ Min(now + TickStep, wake) <= MaxTime
    /\ now' = Min(now + TickStep, wake)
    /\ UNCHANGED <<gvars, pvars, _registry, uuid_count, wake, resp, returned_ids, visible, beat,
                   dereg_ok, swept, cvars, since_restart, lvars>>

FifoLockNext ==
    \/ Tick
    \/ fifo_tick
    \/ acquire_at_once(_registry_lock, _waiters) /\ cleanup_stale_instances
    \/ \E op \in {"register", "heartbeat"} : \E s \in LockServices : \E id \in Ids :
           fifo_call(op, s, id)
    \/ fifo_acquire
    \/ \E k \in co : co_release(k)

FifoLockSpec == Init /\ [][FifoLockNext]_vars


\* ------------------------------------------------------------------ client
\* One service process (users_service/app.py and the like) runs
\* src/registry_service/client.py against the registry.  An HTTP request
\* and its handling by the registry take no model time.  The registry's
\* clock and the process's clock are the same clock.
heartbeat_interval == 10

\* the arguments of register_service in on_startup
client_service == "users"
client_base_url == Urls[1]

\* what can happen to the POST /register: the 201 answer arrives, another
\* status arrives in its place (the request was rejected before the
\* handler stored anything), the connection fails, or the answer of the
\* handler does not arrive within the timeout
RegisterOutcomes == {"ok", "status_error", "connect_error", "timeout"}

\* what can happen to a POST /heartbeat or DELETE /deregister, whose
\* status the client does not look at
CallOutcomes == {"ok", "connect_error", "timeout"}

\* the handler of the registry has run for the request
Handled(o) == o \in {"ok", "timeout"}

\* the exception httpx raises in the client for an outcome
Exc(o) ==
    CASE o = "status_error" -> "HTTPStatusError"
      [] o = "connect_error" -> "ConnectError"
      [] o = "timeout" -> "ReadTimeout"
      [] OTHER -> "none"

\* faulty variant: the id is recorded and the loop started whatever the outcome
client_register_optimistic(o, id) ==
    [instance_id |-> id, task |-> "sleep", raised |-> Exc(o)]

\* ServiceRegistryClient.register on a new client for outcome o of its
\* POST, id being the instance_id of the 201 answer: the client's fields
\* after the call and the exception the call raises
client_register(o, id) ==
    IF o = "ok"
    THEN [instance_id |-> id, task |-> "sleep", raised |-> "none"]
    ELSE [instance_id |-> 0, task |-> "none", raised |-> Exc(o)]

\* register_service of client.py, called by on_startup: a new
\* ServiceRegistryClient is made and its register() awaited
client_register_service(o) ==
    /\ caller = "start"
    /\ Handled(o) => uuid_count < MaxIds
    /\ LET instance_id == uuid4(uuid_count)
           r == client_register(o, instance_id)
       IN  /\ IF Handled(o)
              THEN /\ _registry' = register_locked(_registry,
                                      instance_data(instance_id, client_service,
                                                    client_base_url, now))
                   /\ uuid_count' = uuid_count + 1
                   /\ returned_ids' = Append(returned_ids, instance_id)
                   /\ since_restart' = since_restart \cup
                          {[instance_id |-> instance_id, service_name |-> client_service]}
              ELSE UNCHANGED <<_registry, uuid_count, returned_ids, since_restart>>
           /\ self_instance_id' = r.instance_id
           /\ _heartbeat_task' = r.task
           /\ hb_wake' = IF r.task = "sleep" THEN now + heartbeat_interval ELSE hb_wake
           /\ raised' = r.raised
           /\ caller' = IF r.raised = "none" THEN "up" ELSE "failed"
    /\ UNCHANGED <<gvars, pvars, lvars, now, wake, resp, visible, beat, dereg_ok, swept,
                   _shutdown_event, cancel_requested, hb_result, resolved>>

\* the loop's asyncio.sleep has returned; self.instance_id is tested and
\* the POST /heartbeat handed to httpx
heartbeat_send ==
    /\ _heartbeat_task = "sleep"
    /\ ~cancel_requested
    /\ now >= hb_wake
    /\ IF self_instance_id # 0
       THEN _heartbeat_task' = "post" /\ hb_wake' = hb_wake
       ELSE _heartbeat_task' = "sleep" /\ hb_wake' = now + heartbeat_interval
    /\ UNCHANGED <<gvars, pvars, since_restart, lvars, _registry, now, uuid_count, wake, resp, returned_ids, visible,
                   beat, dereg_ok, swept, self_instance_id, _shutdown_event,
                   cancel_requested, caller, raised, hb_result, resolved>>

\* faulty variant: a 404 answer ends the loop
_heartbeat_loop_stop_404(res, shutdown) ==
    IF res \in {"CancelledError", "404"} \/ shutdown THEN "done" ELSE "sleep"

\* faulty variant: an exception of the request ends the loop
_heartbeat_loop_stop_exc(res, shutdown) ==
    IF res \in {"CancelledError", "ConnectError", "ReadTimeout"} \/ shutdown
    THEN "done"
    ELSE "sleep"

\* where the task of _heartbeat_loop is after an iteration that ended with
\* res: CancelledError breaks, any other exception is passed over, a
\* response is not looked at, and the while condition tests the event
_heartbeat_loop(res, shutdown) ==
    IF res = "CancelledError" \/ shutdown THEN "done" ELSE "sleep"

\* the loop's await client.post(...) ends with outcome o
heartbeat_receive(o) ==
    /\ _heartbeat_task = "post"
    /\ ~cancel_requested
    /\ LET h == heartbeat_locked(_registry, self_instance_id, now)
           res == IF o = "ok" THEN (IF h.found THEN "200" ELSE "404") ELSE Exc(o)
           task == _heartbeat_loop(res, _shutdown_event)
       IN  /\ _registry' = IF Handled(o) THEN h.reg ELSE _registry
           /\ hb_result' = res
           /\ _heartbeat_task' = task
           /\ hb_wake' = IF task = "sleep" THEN now + heartbeat_interval ELSE hb_wake
    /\ UNCHANGED <<gvars, pvars, since_restart, lvars, now, uuid_count, wake, resp, returned_ids, visible, beat,
                   dereg_ok, swept, self_instance_id, _shutdown_event,
                   cancel_requested, caller, raised, resolved>>

\* CancelledError is thrown into the task at the await it is suspended in;
\* a request that was in flight may or may not have been handled
heartbeat_cancelled(handled) ==
    /\ _heartbeat_task \in {"sleep", "post"}
    /\ cancel_requested
    /\ _registry' = IF _heartbeat_task = "post" /\ handled
                    THEN heartbeat_locked(_registry, self_instance_id, now).reg
                    ELSE _registry
    /\ _heartbeat_task' = _heartbeat_loop("CancelledError", _shutdown_event)
    /\ cancel_requested' = FALSE
    /\ UNCHANGED <<gvars, pvars, since_restart, lvars, now, uuid_count, wake, resp, returned_ids, visible, beat,
                   dereg_ok, swept, self_instance_id, _shutdown_event, hb_wake,
                   caller, raised, hb_result, resolved>>

\* faulty variant: the loop is neither cancelled nor awaited
deregister_stop_no_wait(task, id) ==
    [set |-> task # "none", cancel |-> FALSE,
     caller |-> IF id # 0 THEN "delete" ELSE "down"]

\* the first if of ServiceRegistryClient.deregister: with a task, the event
\* is set, the task cancelled and awaited; without one the second if is
\* reached at once, and without an instance_id the method returns
deregister_stop(task, id) ==
    IF task # "none"
    THEN [set |-> TRUE, cancel |-> task # "done", caller |-> "await_task"]
    ELSE [set |-> FALSE, cancel |-> FALSE,
          caller |-> IF id # 0 THEN "delete" ELSE "down"]

\* deregister_service of client.py, called by on_shutdown: _registry_client
\* is set since register_service ran, whether register() raised or not
client_deregister_service ==
    /\ caller \in {"up", "failed"}
    /\ LET d == deregister_stop(_heartbeat_task, self_instance_id)
       IN  /\ _shutdown_event' = (_shutdown_event \/ d.set)
           /\ cancel_requested' = d.cancel
           /\ caller' = d.caller
    /\ raised' = "none"
    /\ UNCHANGED <<gvars, pvars, since_restart, lvars, _registry, now, uuid_count, wake, resp, returned_ids, visible,
                   beat, dereg_ok, swept, self_instance_id, _heartbeat_task,
                   hb_wake, hb_result, resolved>>

\* await self._heartbeat_task returns: the task is done; the second if
\* hands the DELETE to httpx
deregister_joined ==
    /\ caller = "await_task"
    /\ _heartbeat_task = "done"
    /\ caller' = IF self_instance_id # 0 THEN "delete" ELSE "down"
    /\ UNCHANGED <<gvars, pvars, since_restart, lvars, _registry, now, uuid_count, wake, resp, returned_ids, visible,
                   beat, dereg_ok, swept, self_instance_id, _heartbeat_task,
                   _shutdown_event, cancel_requested, hb_wake, raised, hb_result,
                   resolved>>

\* faulty variant: an exception of the DELETE reaches the caller
deregister_delete_raise(o) == Exc(o)

\* what deregister raises for outcome o of its DELETE: the status is not
\* looked at and every Exception is passed over
deregister_delete(o) == "none"

\* the await client.delete(...) of deregister ends with outcome o;
\* deregister_service then forgets the client
deregister_receive(o) ==
    /\ caller = "delete"
    /\ LET d == deregister_locked(_registry, self_instance_id)
       IN  /\ _registry' = IF Handled(o) THEN d.reg ELSE _registry
           /\ dereg_ok' = IF Handled(o) /\ d.found
                          THEN [dereg_ok EXCEPT ![self_instance_id] = @ + 1]
                          ELSE dereg_ok
    /\ raised' = deregister_delete(o)
    /\ caller' = "down"
    /\ UNCHANGED <<gvars, pvars, since_restart, lvars, now, uuid_count, wake, resp, returned_ids, visible, beat, swept,
                   self_instance_id, _heartbeat_task, _shutdown_event,
                   cancel_requested, hb_wake, hb_result, resolved>>

\* the process ends, after its shutdown handler or without it, and is
\* started again: its tasks end with it and the new process has a new
\* ServiceRegistryClient
process_restart ==
    /\ caller \in {"up", "failed", "down"}
    /\ uuid_count < MaxIds
    /\ self_instance_id' = 0
    /\ _heartbeat_task' = "none"
    /\ _shutdown_event' = FALSE
    /\ cancel_requested' = FALSE
    /\ hb_wake' = 0
    /\ caller' = "start"
    /\ raised' = "none"
    /\ hb_result' = "none"
    /\ orphans' = {}
    /\ UNCHANGED <<gvars, shutting_down, _waiters, since_restart, lvars, _registry, now, uuid_count, wake, resp, returned_ids, visible,
                   beat, dereg_ok, swept, resolved>>

\* a process calls get_service_url(service_name) and its GET has outcome o
call_get_service_url(service_name, o) ==
    /\ resolved = Unset
    /\ resolved' = [o |-> o, service_name |-> service_name,
                    result |-> get_service_url(o, get_locked(_registry, service_name, now))]
    /\ _registry' = IF o = "connect_error" THEN _registry ELSE reads_locked(_registry, now)
    /\ UNCHANGED <<gvars, pvars, since_restart, lvars, now, uuid_count, wake, resp, returned_ids, visible,
                   beat, dereg_ok, swept, self_instance_id, _heartbeat_task,
                   _shutdown_event, cancel_requested, hb_wake, caller, raised,
                   hb_result>>

\* the caller of get_service_url has its result (or its exception)
return_get_service_url ==
    /\ resolved # Unset
    /\ resolved' = Unset
    /\ UNCHANGED <<gvars, pvars, since_restart, lvars, _registry, now, uuid_count, wake, resp, returned_ids, visible,
                   beat, dereg_ok, swept, self_instance_id, _heartbeat_task,
                   _shutdown_event, cancel_requested, hb_wake, caller, raised,
                   hb_result>>

ClientNext ==
    \/ Tick
    \/ cleanup_stale_instances
    \/ \E o \in RegisterOutcomes : client_register_service(o)
    \/ heartbeat_send
    \/ \E o \in CallOutcomes : heartbeat_receive(o)
    \/ \E handled \in BOOLEAN : heartbeat_cancelled(handled)
    \/ client_deregister_service
    \/ deregister_joined
    \/ \E o \in CallOutcomes : deregister_receive(o)
    \/ process_restart
    \/ \E s \in Services : \E o \in GetOutcomes : call_get_service_url(s, o)
    \/ return_get_service_url

ClientSpec == Init /\ [][ClientNext]_vars

\* The event loops run every coroutine that is ready and the timers fire;
\* when the process is shut down or restarted is not constrained.
ClientFairSpec ==
    /\ ClientSpec
    /\ WF_vars(Tick)
    /\ WF_vars(cleanup_stale_instances)
    /\ WF_vars(heartbeat_send)
    /\ WF_vars(\E o \in CallOutcomes : heartbeat_receive(o))
    /\ WF_vars(\E handled \in BOOLEAN : heartbeat_cancelled(handled))
    /\ WF_vars(deregister_joined)
    /\ WF_vars(\E o \in CallOutcomes : deregister_receive(o))
    /\ WF_vars(return_get_service_url)

\* --------------------------------------------------------- register again
\* register_service of client.py, or register() of the client it made, is
\* called again in a process that has called it before.  Neither looks at
\* self._heartbeat_task or _registry_client before assigning it, so the
\* task of a loop that is running is no longer referred to by anything and
\* runs on.

\* the loop the assignment of a new task or a new client leaves behind
orphaned(task, own, id, wake_at) ==
    IF task = "sleep"
    THEN {[own |-> own, instance_id |-> id, hb_wake |-> wake_at]}
    ELSE {}

\* register_service is called again: _registry_client becomes a new
\* ServiceRegistryClient, whose register() is awaited
client_register_service_again(o) ==
    /\ caller \in {"up", "failed"}
    /\ _heartbeat_task # "post"
    /\ Handled(o) => uuid_count < MaxIds
    /\ LET instance_id == uuid4(uuid_count)
           r == client_register(o, instance_id)
       IN  /\ IF Handled(o)
              THEN /\ _registry' = register_locked(_registry,
                                      instance_data(instance_id, client_service,
                                                    client_base_url, now))
                   /\ uuid_count' = uuid_count + 1
                   /\ returned_ids' = Append(returned_ids, instance_id)
                   /\ since_restart' = since_restart \cup
                          {[instance_id |-> instance_id, service_name |-> client_service]}
              ELSE UNCHANGED <<_registry, uuid_count, returned_ids, since_restart>>
           /\ orphans' = {[l EXCEPT !.own = TRUE, !.instance_id = self_instance_id] :
                              l \in {l \in orphans : ~l.own}}
                          \cup {l \in orphans : l.own}
                          \cup orphaned(_heartbeat_task, TRUE, self_instance_id, hb_wake)
           /\ self_instance_id' = r.instance_id
           /\ _heartbeat_task' = r.task
           /\ _shutdown_event' = FALSE
           /\ hb_wake' = IF r.task = "sleep" THEN now + heartbeat_interval ELSE hb_wake
           /\ raised' = r.raised
           /\ caller' = IF r.raised = "none" THEN "up" ELSE "failed"
    /\ UNCHANGED <<gvars, shutting_down, _waiters, lvars, now, wake, resp, visible, beat, dereg_ok, swept,
                   cancel_requested, hb_result, resolved>>

\* register() is called again on the client register_service made: with a
\* 201 answer self.instance_id and self._heartbeat_task are assigned anew;
\* otherwise the call raises and the client is as before
client_register_again(o) ==
    /\ caller = "up"
    /\ _heartbeat_task # "post"
    /\ Handled(o) => uuid_count < MaxIds
    /\ LET instance_id == uuid4(uuid_count)
       IN  /\ IF Handled(o)
              THEN /\ _registry' = register_locked(_registry,
                                      instance_data(instance_id, client_service,
                                                    client_base_url, now))
                   /\ uuid_count' = uuid_count + 1
                   /\ returned_ids' = Append(returned_ids, instance_id)
                   /\ since_restart' = since_restart \cup
                          {[instance_id |-> instance_id, service_name |-> client_service]}
              ELSE UNCHANGED <<_registry, uuid_count, returned_ids, since_restart>>
           /\ IF o = "ok"
              THEN /\ orphans' = orphans \cup orphaned(_heartbeat_task, FALSE, 0, hb_wake)
                   /\ self_instance_id' = instance_id
                   /\ _heartbeat_task' = "sleep"
                   /\ hb_wake' = now + heartbeat_interval
              ELSE UNCHANGED <<orphans, self_instance_id, _heartbeat_task, hb_wake>>
           /\ raised' = Exc(o)
    /\ UNCHANGED <<gvars, shutting_down, _waiters, lvars, now, wake, resp, visible, beat, dereg_ok, swept,
                   _shutdown_event, cancel_requested, caller, hb_result, resolved>>

\* one iteration of a loop that was left behind: its sleep has returned,
\* the heartbeat for its client's instance_id is posted with outcome o, and
\* the while condition tests its client's event, which only the deregister
\* of that client sets
orphan_heartbeat(l, o) ==
    /\ now >= l.hb_wake
    /\ LET id == IF l.own THEN l.instance_id ELSE self_instance_id
           shutdown == IF l.own THEN FALSE ELSE _shutdown_event
           res == IF o = "ok" THEN "200" ELSE Exc(o)
       IN  /\ _registry' = IF id # 0 /\ Handled(o)
                           THEN heartbeat_locked(_registry, id, now).reg
                           ELSE _registry
           /\ orphans' = (orphans \ {l}) \cup
                          (IF _heartbeat_loop(res, shutdown) = "sleep"
                           THEN {[l EXCEPT !.hb_wake = now + heartbeat_interval]}
                           ELSE {})
    /\ UNCHANGED <<gvars, shutting_down, _waiters, lvars, now, uuid_count, wake, resp, returned_ids, visible, beat,
                   dereg_ok, swept, since_restart, cvars>>

RegisterAgainNext ==
    \/ Tick
    \/ cleanup_stale_instances
    \/ \E o \in RegisterOutcomes : client_register_service(o)
    \/ heartbeat_send
    \/ \E o \in CallOutcomes : heartbeat_receive(o)
    \/ \E handled \in BOOLEAN : heartbeat_cancelled(handled)
    \/ client_deregister_service
    \/ deregister_joined
    \/ \E o \in CallOutcomes : deregister_receive(o)
    \/ process_restart
    \/ \E o \in RegisterOutcomes : client_register_service_again(o)
    \/ \E o \in RegisterOutcomes : client_register_again(o)
    \/ \E l \in orphans : \E o \in CallOutcomes : orphan_heartbeat(l, o)

RegisterAgainSpec == Init /\ [][RegisterAgainNext]_vars

\* ----------------------------------------------------------------- gateway
\* the services the gateway's routes forward to
GatewayTargets == {"users", "timelines", "likes", "polls"}

\* the forwarding routes of src/gateway.py: the handler, the service its
\* get_service_url call names and a path it forwards
ProxyRoutes ==
    {[route |-> "likes_user_likes_proxy", service_name |-> "likes", path |-> "/users/u/likes"],
     [route |-> "users_service_auth_proxy", service_name |-> "users", path |-> "/login"],
     [route |-> "users_service_proxy", service_name |-> "users", path |-> "/users/u"],
     [route |-> "timelines_service_root_proxy", service_name |-> "timelines", path |-> "/posts"],
     [route |-> "timelines_service_proxy", service_name |-> "timelines", path |-> "/posts/p"],
     [route |-> "likes_service_root_proxy", service_name |-> "likes", path |-> "/likes"],
     [route |-> "likes_service_proxy", service_name |-> "likes", path |-> "/likes/p"],
     [route |-> "polls_service_root_proxy", service_name |-> "polls", path |-> "/polls"],
     [route |-> "polls_service_proxy", service_name |-> "polls", path |-> "/polls/p"]}

\* what can happen to the request proxy_request sends: the backend answers
\* with a status, the backend answers with a redirect to its own address
\* that the client follows (follow_redirects=True), or httpx raises
\* TimeoutException, ConnectError or another exception
BackendOutcomes == {"200", "404", "redirect", "timeout", "connect_error", "error"}

\* proxy_request for the outcome b of its request: the request goes to
\* f"{service_url}{path}"; the backend's status is handed on, a timeout
\* gives 504, ConnectError and any other exception give 502
proxy_request(service_url, path, b) ==
    LET first == [base |-> service_url, url |-> service_url \o path]
        second == [base |-> service_url, url |-> service_url \o path \o "/"]
    IN  [sent |-> IF b = "redirect" THEN <<first, second>> ELSE <<first>>,
         status |-> CASE b \in {"200", "redirect"} -> 200
                      [] b = "404" -> 404
                      [] b = "timeout" -> 504
                      [] OTHER -> 502]

\* faulty variant: a route without a resolved address forwards to the
\* first address it knows
forward_default(url, path, b) ==
    IF url = HTTPStatusError
    THEN [sent |-> <<>>, status |-> 500]
    ELSE IF url = None
         THEN proxy_request(Urls[1], path, b)
         ELSE proxy_request(url, path, b)

\* the body of a forwarding route after its get_service_url call gave url:
\* an exception of the resolver is not caught and the framework answers
\* 500, "if not url" raises HTTPException(502), else proxy_request is
\* called with url
forward(url, path, b) ==
    IF url = HTTPStatusError
    THEN [sent |-> <<>>, status |-> 500]
    ELSE IF url = None
         THEN [sent |-> <<>>, status |-> 502]
         ELSE proxy_request(url, path, b)

\* A forwarding route handles one request: the resolver's GET has outcome o
\* and is answered from the registry as it is, the backend request has
\* outcome b.
gateway_proxy(r, o, b) ==
    /\ resp = NoResp
    /\ LET url == get_service_url(o, get_locked(_registry, r.service_name, now))
           done == forward(url, r.path, b)
       IN  gw' = [route |-> r.route, service_name |-> r.service_name, outcome |-> o,
                  resolved |-> url, sent |-> done.sent, status |-> done.status]
    /\ UNCHANGED <<_registry, now, uuid_count, wake, resp, returned_ids, visible, beat,
                   dereg_ok, swept, cvars, since_restart, lvars, pvars, kvars>>

\* root(): the four addresses are resolved one after the other and listed,
\* "not available" standing for None; an exception of a resolver is not
\* caught.  No request goes to a backend.  Every outcome of a resolver's GET
\* other than a non-404 error status gives an address or None.
gateway_root(os) ==
    /\ resp = NoResp
    /\ gw' = [route |-> "root", service_name |-> "", outcome |-> "", resolved |-> "",
              sent |-> <<>>,
              status |-> IF \E s \in GatewayTargets : os[s] = "status_error"
                         THEN 500 ELSE 200]
    /\ UNCHANGED <<_registry, now, uuid_count, wake, resp, returned_ids, visible, beat,
                   dereg_ok, swept, cvars, since_restart, lvars, pvars, kvars>>

\* health_check()
gateway_health ==
    /\ resp = NoResp
    /\ gw' = [route |-> "health_check", service_name |-> "", outcome |-> "",
              resolved |-> "", sent |-> <<>>, status |-> 200]
    /\ UNCHANGED <<_registry, now, uuid_count, wake, resp, returned_ids, visible, beat,
                   dereg_ok, swept, cvars, since_restart, lvars, pvars, kvars>>

\* the gateway's answer leaves; gw describes the request being answered
gateway_send_response ==
    /\ gw # NoExchange
    /\ gw' = NoExchange
    /\ UNCHANGED <<_registry, now, uuid_count, wake, resp, returned_ids, visible, beat,
                   dereg_ok, swept, cvars, since_restart, lvars, pvars, kvars>>

\* the gateway beside a registry in which services register and are swept,
\* one request of the gateway being answered before the next event
GatewayNext ==
    \/ gw = NoExchange /\ Tick
    \/ gw = NoExchange /\ send_response
    \/ gw = NoExchange /\ \E s \in Services : register_service(s, CallerUrl(uuid_count + 1))
    \/ gw = NoExchange /\ cleanup_stale_instances
    \/ gw = NoExchange /\ \E r \in ProxyRoutes : \E o \in GetOutcomes :
           \E b \in BackendOutcomes : gateway_proxy(r, o, b)
    \/ gw = NoExchange /\ \E os \in [GatewayTargets -> {"ok", "status_error"}] :
           gateway_root(os)
    \/ gw = NoExchange /\ gateway_health
    \/ gateway_send_response

GatewaySpec == Init /\ [][GatewayNext]_vars

\* ------------------------------------------------------------------- likes
\* The handlers of the likes service are plain functions run by the
\* framework's thread pool and the worker is a process of its own; each
\* Redis and beanstalkd command is atomic at its server.  Here the commands
\* of one handler, and of one pass of the worker's loop after its reserve,
\* run together: the behaviours are the sequences of whole operations, with
\* Redis and beanstalkd answering every command.

\* everything of the registry and of the client process
regvars == <<_registry, now, uuid_count, wake, resp, returned_ids, visible, beat,
             dereg_ok, swept, since_restart, cvars, lvars, pvars>>

\* r.zincrby(likes_score_key(), d, str(post_id)): a member that is absent
\* is created with score d
zincrby(score, d, post_id) ==
    IF post_id \in DOMAIN score
    THEN [score EXCEPT ![post_id] = @ + d]
    ELSE [q \in DOMAIN score \cup {post_id} |-> IF q = post_id THEN d ELSE score[q]]

\* r.zrem(likes_score_key(), str(post_id))
zrem(score, post_id) == [q \in DOMAIN score \ {post_id} |-> score[q]]

\* the clean-up after a decrement: zscore, then zrem when the score is
\* not None and <= 0
zrem_if_spent(score, post_id) ==
    IF post_id \in DOMAIN score /\ score[post_id] <= 0
    THEN zrem(score, post_id)
    ELSE score

\* client.put(body) on a tube when the put has outcome ok: the job goes to
\* the end of the ready jobs
put(tube, ok, id, post_id, username) ==
    IF ok
    THEN Append(tube, [id |-> id, post_id |-> post_id, username |-> username])
    ELSE tube

\* like_post(post_id) by current_username; v and n tell whether the put of
\* the validation job and of the notification job succeed (an exception of
\* greenstalk is caught and printed).  The jobs of like_notification are
\* told apart by their bodies only.
like_post(post_id, current_username, v, n) ==
    LET added == IF current_username \in likes_post[post_id] THEN 0 ELSE 1
    IN  /\ added = 1 => job_count < MaxJobs /\ Len(like_notification) < MaxJobs
        /\ added = 0 => v /\ n
        /\ likes_post' = [likes_post EXCEPT ![post_id] = @ \cup {current_username}]
        /\ likes_user' = [likes_user EXCEPT ![current_username] = @ \cup {post_id}]
        /\ IF added = 1
           THEN /\ likes_score' = zincrby(likes_score, 1, post_id)
                /\ like_validation' =
                       put(like_validation, v, job_count + 1, post_id, current_username)
                /\ like_notification' =
                       put(like_notification, n, 0, post_id, current_username)
                /\ job_count' = job_count + (IF v THEN 1 ELSE 0)
           ELSE UNCHANGED <<likes_score, like_validation, like_notification, job_count>>
        /\ UNCHANGED <<reserved, buried, worker, gw, regvars>>

\* unlike_post(post_id) by current_username
unlike_post(post_id, current_username) ==
    LET removed == IF current_username \in likes_post[post_id] THEN 1 ELSE 0
    IN  /\ likes_post' = [likes_post EXCEPT ![post_id] = @ \ {current_username}]
        /\ likes_user' = [likes_user EXCEPT ![current_username] = @ \ {post_id}]
        /\ likes_score' = IF removed = 1
                          THEN zrem_if_spent(zincrby(likes_score, -1, post_id), post_id)
                          ELSE likes_score
        /\ UNCHANGED <<like_validation, like_notification, reserved, buried, job_count,
                       worker, gw, regvars>>

\* remove_like_from_redis(post_id, username): the three Redis structures
\* after it
remove_like_from_redis(post_id, username) ==
    [likes_post |-> [likes_post EXCEPT ![post_id] = @ \ {username}],
     likes_user |-> [likes_user EXCEPT ![username] = @ \ {post_id}],
     likes_score |-> zrem_if_spent(zincrby(likes_score, -1, post_id), post_id)]

\* get_service_url_sync for the outcome o of its GET, r being the
\* registry's answer
get_service_url_sync(o, r) ==
    IF o \in {"connect_error", "timeout"}
    THEN None
    ELSE IF o = "status_error"
         THEN HTTPStatusError
         ELSE IF r.status = 404
              THEN None
              ELSE IF o = "malformed"
                   THEN None
                   ELSE IF r.instances = <<>>
                        THEN None
                        ELSE r.instances[1].base_url

\* what can happen to the worker's GET {timelines}/posts/id/{post_id}: an
\* answer with a status, or an exception of httpx
CheckOutcomes == {"200", "404", "500", "timeout", "connect_error"}

\* what becomes of the reserved job in one pass of the loop, timelines_url
\* and users_url being what get_service_url_sync gives (or raises) and c the
\* outcome of the post check: "delete", "bury", or "keep" when the pass ends
\* in the handler of the outer try, which only prints; and whether
\* remove_like_from_redis was called
validate(timelines_url, c, users_url) ==
    IF timelines_url = HTTPStatusError
    THEN [end |-> "keep", remove |-> FALSE]
    ELSE IF timelines_url = None
         THEN [end |-> "bury", remove |-> FALSE]
         ELSE IF c = "200"
              THEN [end |-> "delete", remove |-> FALSE]
              ELSE IF c = "404"
                   THEN IF users_url = HTTPStatusError
                        THEN [end |-> "bury", remove |-> TRUE]
                        ELSE [end |-> "delete", remove |-> TRUE]
                   ELSE [end |-> "bury", remove |-> FALSE]

\* client.reserve(timeout=1) gives the oldest ready job of the tube
worker_reserve ==
    /\ worker.job = NoJob
    /\ like_validation # <<>>
    /\ worker' = [job |-> Head(like_validation), resolved |-> "", check |-> ""]
    /\ like_validation' = Tail(like_validation)
    /\ reserved' = reserved \cup {Head(like_validation)}
    /\ UNCHANGED <<likes_post, likes_user, likes_score, like_notification, buried,
                   job_count, gw, regvars>>

\* The rest of the pass for the reserved job: o and o2 are the outcomes of
\* the resolver's GETs for "timelines" and "users", c of the post check.
\* The users service is resolved only after a 404 of the post check.  The
\* notification of the user changes nothing here.
worker_validate(o, c, o2) ==
    /\ worker.job # NoJob
    /\ c # "404" => o2 = "ok"
    /\ LET j == worker.job
           timelines_url == get_service_url_sync(o, get_locked(_registry, "timelines", now))
           users_url == get_service_url_sync(o2, get_locked(_registry, "users", now))
           v == validate(timelines_url, c, users_url)
           after == IF v.remove
                    THEN remove_like_from_redis(j.post_id, j.username)
                    ELSE [likes_post |-> likes_post, likes_user |-> likes_user,
                          likes_score |-> likes_score]
       IN  /\ likes_post' = after.likes_post
           /\ likes_user' = after.likes_user
           /\ likes_score' = after.likes_score
           /\ reserved' = IF v.end = "keep" THEN reserved ELSE reserved \ {j}
           /\ buried' = IF v.end = "bury" THEN buried \cup {j} ELSE buried
           /\ worker' = [job |-> NoJob, resolved |-> timelines_url,
                         check |-> IF timelines_url \in {None, HTTPStatusError}
                                   THEN "" ELSE c]
    /\ UNCHANGED <<like_validation, like_notification, job_count, gw, regvars>>

\* beanstalkd: the time-to-run of a reserved job the worker has left
\* behind runs out and the job is ready again
job_timeout(j) ==
    /\ j \in reserved
    /\ worker.job # j
    /\ reserved' = reserved \ {j}
    /\ like_validation' = Append(like_validation, j)
    /\ UNCHANGED <<likes_post, likes_user, likes_score, like_notification, buried,
                   job_count, worker, gw, regvars>>

\* the likes service and its validation worker beside a registry in which
\* instances of the timelines service register
LikesNext ==
    \/ send_response
    \/ register_service("timelines", CallerUrl(uuid_count + 1))
    \/ \E p \in PostIds : \E u \in Usernames : \E v, n \in BOOLEAN : like_post(p, u, v, n)
    \/ \E p \in PostIds : \E u \in Usernames : unlike_post(p, u)
    \/ worker_reserve
    \/ \E o, o2 \in GetOutcomes : \E c \in CheckOutcomes : worker_validate(o, c, o2)
    \/ \E j \in reserved : job_timeout(j)

LikesSpec == Init /\ [][LikesNext]_vars

\* ================================================================= claims
Ids_of(insts) == [k \in DOMAIN insts |-> insts[k].instance_id]

Stale(inst, t) == t - inst.last_heartbeat >= HEARTBEAT_TIMEOUT

\* position of an id in the order of the register responses
RegOrder(id) == CHOOSE k \in DOMAIN returned_ids : returned_ids[k] = id

\* C1: every instance_id returned by register differs from every id returned
\* before it, whether or not the earlier instance is still stored.
C1_UniqueIds ==
    \A i, j \in DOMAIN returned_ids : i # j => returned_ids[i] # returned_ids[j]

\* a register has returned after an earlier instance was deregistered
C1_Witness ==
    /\ Len(returned_ids) >= 2
    /\ resp.op = "register"
    /\ resp.instance_id = returned_ids[Len(returned_ids)]
    /\ dereg_ok[returned_ids[1]] = 1
    /\ returned_ids[1] \notin StoredIds(_registry)

\* C2: a registration (id, s, u) made less than HEARTBEAT_TIMEOUT ago, with no
\* heartbeat or deregister call on id since, is returned by the query for s
\* with that id and that base_url.
C2_ImmediateVisibility ==
    \A v \in visible :
        LET r == get_locked(_registry, v.service_name, now)
        IN  /\ r.status = 200
            /\ \E k \in DOMAIN r.instances :
                   /\ r.instances[k].instance_id = v.instance_id
                   /\ r.instances[k].base_url = v.base_url

\* C3: the registrations of one service that are still fresh and untouched
\* each occupy exactly one position of that service's sequence, and the
\* query for the service returns all of them: none is lost or overwritten.
C3_NoLostRegistration ==
    \A s \in Services :
        LET V == {v.instance_id : v \in {w \in visible : w.service_name = s}}
            Mine(inst) == inst.instance_id \in V
        IN  V # {} =>
              /\ s \in Keys(_registry)
              /\ Len(SelectSeq(Get(_registry, s), Mine)) = Cardinality(V)
              /\ Len(SelectSeq(get_locked(_registry, s, now).instances, Mine))
                     = Cardinality(V)

\* two registrations of the same service made at the same instant
C3_Witness ==
    \E v, w \in visible :
        /\ v.instance_id # w.instance_id
        /\ v.service_name = w.service_name
        /\ v.at = w.at

\* C4: the query for s answers 404 exactly when s is not a key or every
\* stored instance of s is stale at the time of the query; otherwise it
\* answers 200 with a non-empty sequence.
C4_NotFoundExactly ==
    resp.op = "get" =>
        LET s == resp.service_name
            none_active ==
                \/ s \notin Keys(_registry)
                \/ \A inst \in Range(Get(_registry, s)) : Stale(inst, resp.at)
        IN  /\ resp.status = 404 <=> none_active
            /\ resp.status # 404 => (resp.status = 200 /\ resp.instances # <<>>)

\* the only instance of a service was never heartbeated and has expired,
\* is still stored, and the query answers 404
C4_Witness ==
    /\ resp.op = "get"
    /\ resp.status = 404
    /\ resp.service_name \in Keys(_registry)
    /\ LET insts == Get(_registry, resp.service_name)
       IN  Len(insts) = 1 /\ insts[1].last_heartbeat = insts[1].registered_at

FreshStored(s, t) ==
    IF s \in Keys(_registry)
    THEN {inst \in Range(Get(_registry, s)) : ~Stale(inst, t)}
    ELSE {}

\* C5: no response of the query, of the listing of all services, of the
\* status or of the resolver includes or counts an instance that is stale
\* at the time of the request.
C5_FreshnessFiltering ==
    /\ resp.op = "get" =>
          /\ Range(resp.instances) \subseteq FreshStored(resp.service_name, resp.at)
          /\ get_service_url("ok", resp) # None =>
                \E inst \in FreshStored(resp.service_name, resp.at) :
                    inst.base_url = get_service_url("ok", resp)
    /\ resp.op = "list" =>
          \A k \in DOMAIN resp.services :
              Range(resp.services[k].instances)
                  \subseteq FreshStored(resp.services[k].service_name, resp.at)
    /\ resp.op = "status" =>
          /\ \A k \in DOMAIN resp.services :
                 resp.services[k].count
                     <= Cardinality(FreshStored(resp.services[k].service_name, resp.at))
          /\ resp.total_instances
                 <= Cardinality(UNION {FreshStored(s, resp.at) : s \in Services})

\* a non-empty result is returned while a stale instance is still stored
C5_Witness ==
    /\ resp.op \in {"get", "list", "status"}
    /\ resp.status = 200
    /\ resp.instances # <<>> \/ resp.services # <<>>
    /\ \E inst \in AllInstances(_registry) : Stale(inst, resp.at)

\* C6: an instance whose last successful heartbeat was made less than
\* HEARTBEAT_TIMEOUT ago (and that was not deregistered since) is stored
\* and returned by the query for its service.
C6_HeartbeatResetsClock ==
    \A b \in beat :
        \E inst \in AllInstances(_registry) :
            /\ inst.instance_id = b.instance_id
            /\ \E k \in DOMAIN get_locked(_registry, inst.service_name, now).instances :
                   get_locked(_registry, inst.service_name, now).instances[k].instance_id
                       = b.instance_id

\* an instance registered at least HEARTBEAT_TIMEOUT ago is kept by a sweep
\* pass of this instant because of its heartbeat
C6_Witness ==
    \E b \in beat :
        \E inst \in AllInstances(_registry) :
            /\ inst.instance_id = b.instance_id
            /\ now - inst.registered_at >= HEARTBEAT_TIMEOUT
            /\ wake > now

\* C7: no instance is stored once CLEANUP_INTERVAL has elapsed past its
\* expiry instant last_heartbeat + HEARTBEAT_TIMEOUT, and no service key
\* is left without such an instance.
C7_HardEviction ==
    /\ \A inst \in AllInstances(_registry) :
           now < inst.last_heartbeat + HEARTBEAT_TIMEOUT + CLEANUP_INTERVAL
    /\ \A i \in DOMAIN _registry : _registry[i].instances # <<>>

\* the sweeper has removed the last instance of the last service
C7_Witness ==
    /\ swept # {}
    /\ _registry = <<>>
    /\ \A id \in Ids : dereg_ok[id] = 0

ListedIds(r) ==
    Range(Ids_of(r.instances)) \cup
    UNION {Range(Ids_of(r.services[k].instances)) : k \in DOMAIN r.services}

\* C8: deregister(id) answers 200 at most once; it answers 404 only for an
\* id that was never returned by register, was swept, or was deregistered
\* before; and an id deregistered once is never stored or listed again.
C8_DeregisterOnce ==
    /\ \A id \in Ids : dereg_ok[id] <= 1
    /\ (resp.op = "deregister" /\ resp.status = 404) =>
           \/ resp.instance_id \notin Range(returned_ids)
           \/ resp.instance_id \in swept
           \/ dereg_ok[resp.instance_id] >= 1
    /\ \A id \in Ids : dereg_ok[id] >= 1 =>
           /\ id \notin StoredIds(_registry)
           /\ id \notin ListedIds(resp)

\* a second deregister of the same id has answered 404
C8_Witness ==
    /\ resp.op = "deregister"
    /\ resp.status = 404
    /\ dereg_ok[resp.instance_id] = 1

\* C9: a heartbeat or deregister for an id that is not stored answers 404
\* and leaves the registry as it was.
C9_UnknownIdNotFound ==
    [][(/\ resp'.op \in {"heartbeat", "deregister"}
        /\ resp'.instance_id \notin StoredIds(_registry))
       => (resp'.status = 404 /\ _registry' = _registry)]_vars

\* 404 for a swept id while other instances are stored
C9_Witness ==
    /\ resp.op \in {"heartbeat", "deregister"}
    /\ resp.status = 404
    /\ resp.instance_id \in swept
    /\ _registry # <<>>

InRegOrder(insts) ==
    \A j, k \in DOMAIN insts :
        j < k => RegOrder(insts[j].instance_id) < RegOrder(insts[k].instance_id)

\* C10: the query returns the active instances of a service in the order
\* of their registration, and a successful deregister changes the result
\* of the query for every service only by removing that instance.
C10_InsertionOrder ==
    /\ [](\A s \in Services :
             /\ InRegOrder(get_locked(_registry, s, now).instances)
             /\ resp.op = "get" => InRegOrder(resp.instances))
    /\ [][(resp'.op = "deregister" /\ resp'.status = 200)
          => \A s \in Services :
                LET Others(inst) == inst.instance_id # resp'.instance_id
                IN  get_locked(_registry', s, now').instances =
                    SelectSeq(get_locked(_registry, s, now).instances, Others)]_vars

\* the first of two instances of a service has been deregistered and the
\* second is what the service's sequence holds
C10_Witness ==
    /\ Len(returned_ids) >= 2
    /\ resp.op = "deregister"
    /\ resp.status = 200
    /\ resp.instance_id = returned_ids[1]
    /\ resp.service_name \in Keys(_registry)
    /\ Ids_of(get_locked(_registry, resp.service_name, now).instances)
           = <<returned_ids[2]>>

\* an id that deregister or the sweeper has taken out of storage
Removed(id) == id \in swept \/ dereg_ok[id] >= 1

\* C11: an id that was removed from storage, by deregister or by the
\* sweeper, is never stored again, and a heartbeat for it answers 404.
C11_RemovedIsTerminal ==
    /\ \A id \in Ids : Removed(id) => id \notin StoredIds(_registry)
    /\ (resp.op = "heartbeat" /\ Removed(resp.instance_id)) => resp.status = 404

\* a heartbeat for a deregistered id has answered 404 while a later
\* registration is stored
C11_Witness ==
    /\ resp.op = "heartbeat"
    /\ resp.status = 404
    /\ dereg_ok[resp.instance_id] = 1
    /\ \E inst \in AllInstances(_registry) : inst.instance_id > resp.instance_id

\* C12: an instance that is stale (stored, but excluded from the query) is
\* stale or absent after every step: it is never active again.
C12_StaleNeverActive ==
    [][\A inst \in AllInstances(_registry) :
          Stale(inst, now) =>
              \A later \in AllInstances(_registry') :
                  later.instance_id = inst.instance_id => Stale(later, now')]_vars

\* the resolver's result for service s when its GET is answered
Resolve(reg, s, t) == get_service_url("ok", get_locked(reg, s, t))

\* the active instance of s that registered first
EarliestActive(s, t) ==
    CHOOSE inst \in FreshStored(s, t) :
        \A other \in FreshStored(s, t) :
            RegOrder(inst.instance_id) <= RegOrder(other.instance_id)

\* C14: the resolver gives None when the query answers 404 and otherwise
\* the base_url of the earliest-registered instance of the service that is
\* still active, which is stored and not stale; and a registration does not
\* change a result that was not None.
C14_ResolveEarliestActive ==
    /\ [](resp.op = "get" =>
             LET u == get_service_url("ok", resp)
                 F == FreshStored(resp.service_name, resp.at)
             IN  /\ (resp.status = 404 \/ resp.instances = <<>>) <=> u = None
                 /\ F = {} <=> u = None
                 /\ F # {} => u = EarliestActive(resp.service_name, resp.at).base_url)
    /\ [][returned_ids' # returned_ids =>
             \A s \in Services :
                 Resolve(_registry, s, now) # None =>
                     Resolve(_registry', s, now') = Resolve(_registry, s, now)]_vars

\* the query has skipped the stale first instance of a service and the
\* resolver gives the address of a later one
C14_Witness ==
    /\ resp.op = "get"
    /\ resp.status = 200
    /\ LET insts == Get(_registry, resp.service_name)
       IN  /\ Len(insts) >= 2
           /\ Stale(insts[1], resp.at)
           /\ get_service_url("ok", resp) = insts[2].base_url
           /\ insts[2].base_url # insts[1].base_url

\* the client's instance was removed by the sweeper and its process runs on
Evicted == caller = "up" /\ self_instance_id \in swept

\* C13: once the sweeper has removed the instance of a running client, the
\* loop goes on, no heartbeat of it is answered 200, nothing is raised, the
\* instance is not stored and the resolver finds no address for the
\* service; no registration is made before the process is restarted.
C13_EvictedStaysInvisible ==
    /\ [](Evicted =>
             /\ _heartbeat_task \in {"sleep", "post"}
             /\ hb_result # "200"
             /\ raised = "none"
             /\ self_instance_id \notin StoredIds(_registry)
             /\ Resolve(_registry, client_service, now) = None)
    /\ [][(self_instance_id \in swept /\ caller # "start")
          => returned_ids' = returned_ids]_vars

\* a heartbeat of the evicted client was answered 404 and the loop sleeps
\* towards the next one
C13_Witness ==
    /\ Evicted
    /\ hb_result = "404"
    /\ _heartbeat_task = "sleep"
    /\ hb_wake > now

C16_RegisterFailurePropagates ==
    /\ [](caller = "failed" =>
             /\ raised # "none"
             /\ self_instance_id = 0
             /\ _heartbeat_task = "none")
    /\ [](_heartbeat_task # "none" => self_instance_id \in Range(returned_ids))
    /\ [][caller = "failed" =>
             /\ returned_ids' = returned_ids
             /\ caller' \in {"failed", "down", "start"}]_vars

\* the register call timed out after the registry had stored the instance
C16_Witness ==
    /\ caller = "failed"
    /\ raised = "ReadTimeout"
    /\ returned_ids # <<>>
    /\ returned_ids[Len(returned_ids)] \in StoredIds(_registry)

\* C17: from a successful register until deregister is called the loop is
\* running and nothing was raised; an attempt, whatever its result, is
\* followed by the sleep of heartbeat_interval; and every such sleep that
\* ends within the explored time is followed by an attempt.
C17_HeartbeatLoopPersists ==
    /\ [](caller = "up" =>
             /\ _heartbeat_task \in {"sleep", "post"}
             /\ raised = "none")
    /\ [][(/\ caller = "up"
           /\ caller' = "up"
           /\ _heartbeat_task = "post"
           /\ _heartbeat_task' # "post")
          => (_heartbeat_task' = "sleep" /\ hb_wake' = now + heartbeat_interval)]_vars
    /\ ((caller = "up" /\ _heartbeat_task = "sleep" /\ hb_wake <= MaxTime)
            ~> (_heartbeat_task = "post" \/ caller # "up"))

\* a heartbeat is attempted after the previous attempt failed to connect
C17_Witness ==
    /\ caller = "up"
    /\ _heartbeat_task = "post"
    /\ hb_result = "ConnectError"

\* C18: when the DELETE of deregister is issued the loop's task is done,
\* and a heartbeat is sent only while deregister has not been called.
C18_DeregisterOrdering ==
    /\ [](caller = "delete" => _heartbeat_task = "done")
    /\ [][(_heartbeat_task # "post" /\ _heartbeat_task' = "post")
          => (caller = "up" /\ ~_shutdown_event /\ caller' = "up")]_vars

\* the DELETE is issued by a client whose loop had a heartbeat answered 200
C18_Witness ==
    /\ caller = "delete"
    /\ _heartbeat_task = "done"
    /\ hb_result = "200"
    /\ self_instance_id \in StoredIds(_registry)

\* C19: deregister raises nothing whatever the outcome of its DELETE,
\* issues the DELETE only with an instance_id, returns at once without a
\* request when the registration had failed, and always returns.
C19_DeregisterTerminates ==
    /\ [](caller = "down" => raised = "none")
    /\ [](caller = "delete" => self_instance_id # 0)
    /\ [][(caller = "failed" /\ caller' \notin {"failed", "start"})
          => (caller' = "down" /\ _registry' = _registry)]_vars
    /\ (caller \in {"await_task", "delete"} ~> caller = "down")

\* deregister has returned although its DELETE did not reach the registry,
\* which still stores the instance
C19_Witness ==
    /\ caller = "down"
    /\ raised = "none"
    /\ self_instance_id # 0
    /\ self_instance_id \in StoredIds(_registry)

\* C20: no service name is a key of the registry with an empty list of
\* instances.
C20_NoEmptyService ==
    \A i \in DOMAIN _registry : Len(_registry[i].instances) >= 1

\* a deregister has removed the last instance of a service, and its key,
\* while another service is stored
C20_Witness ==
    /\ resp.op = "deregister"
    /\ resp.status = 200
    /\ resp.service_name \notin Keys(_registry)
    /\ _registry # <<>>

\* positions <<i, j>> of the stored instances
Positions(reg) ==
    {p \in (DOMAIN reg) \X (1..2 * MaxIds + 1) : p[2] \in DOMAIN reg[p[1]].instances}

\* C21: every stored instance is at exactly one position of the registry,
\* under a key that is its own service_name; no key occurs twice.
C21_ExactlyOnce ==
    /\ \A p, q \in Positions(_registry) :
           _registry[p[1]].instances[p[2]].instance_id
               = _registry[q[1]].instances[q[2]].instance_id => p = q
    /\ \A p \in Positions(_registry) :
           _registry[p[1]].instances[p[2]].service_name = _registry[p[1]].name
    /\ \A i, k \in DOMAIN _registry : _registry[i].name = _registry[k].name => i = k

\* a registration has been stored under a second service key
C21_Witness ==
    /\ resp.op = "register"
    /\ Len(_registry) = 2
    /\ _registry[2].name = resp.service_name
    /\ Ids_of(_registry[2].instances) = <<resp.instance_id>>

\* the entries of a listing of all services that are about service s
ListedAs(r, s) == {k \in DOMAIN r.services : r.services[k].service_name = s}

\* C25: the listing of all services has an entry for s exactly when the
\* query for s at the same instant answers 200, exactly one then, with the
\* same sequence of instances and count equal to its length.
C25_ListAgreesWithGet ==
    resp.op = "list" =>
        \A s \in Services :
            LET g == get_locked(_registry, s, resp.at)
                L == ListedAs(resp, s)
            IN  /\ g.status = 200 <=> L # {}
                /\ Cardinality(L) <= 1
                /\ \A k \in L :
                       /\ resp.services[k].instances = g.instances
                       /\ resp.services[k].count = Len(g.instances)
                       /\ resp.services[k].count >= 1

\* a listing has one entry while two services are stored: the other
\* service has only stale instances
C25_Witness ==
    /\ resp.op = "list"
    /\ Len(resp.services) = 1
    /\ Len(_registry) = 2

\* C26: the status has a count for s exactly when s has an active
\* instance, equal to the length of the query's answer for s;
\* total_services is the number of counts, total_instances their sum and
\* the number of active instances.
C26_StatusCountsActive ==
    resp.op = "status" =>
        /\ \A s \in Services :
               LET g == get_locked(_registry, s, resp.at)
                   L == ListedAs(resp, s)
               IN  /\ g.status = 200 <=> L # {}
                   /\ Cardinality(L) <= 1
                   /\ \A k \in L : resp.services[k].count = Len(g.instances)
        /\ resp.total_services = Len(resp.services)
        /\ resp.total_instances = SumCounts(resp.services)
        /\ resp.total_instances
               = Cardinality(UNION {FreshStored(s, resp.at) : s \in Services})

\* the status counts an active instance and leaves out a stale one that is
\* still stored
C26_Witness ==
    /\ resp.op = "status"
    /\ resp.total_instances >= 1
    /\ resp.total_instances < Cardinality(AllInstances(_registry))

\* C27: the query, the listing of all services and the status leave the
\* registry as it was.
C27_ReadsLeaveStorage ==
    [][(resp = NoResp /\ resp'.op \in {"get", "list", "status"})
       => _registry' = _registry]_vars

\* an empty listing was answered while a stale instance stays stored
C27_Witness ==
    /\ resp.op = "list"
    /\ resp.services = <<>>
    /\ \E inst \in AllInstances(_registry) : Stale(inst, resp.at)

\* C28: a sweep pass keeps, in order and unchanged, the instances that are
\* not stale at its instant and the keys that have one, removes the others
\* and changes nothing else.
C28_SweepExact ==
    [][wake' # wake =>
          LET Fresh(inst) == ~Stale(inst, now)
              Kept(e) == \E j \in DOMAIN e.instances : Fresh(e.instances[j])
          IN  /\ KeyList(_registry') = KeyList(SelectSeq(_registry, Kept))
              /\ \A i \in DOMAIN _registry' :
                     _registry'[i].instances
                         = SelectSeq(Get(_registry, _registry'[i].name), Fresh)
              /\ StoredIds(_registry) \ StoredIds(_registry')
                     = {inst.instance_id :
                            inst \in {x \in AllInstances(_registry) : Stale(x, now)}}
              /\ <<now, uuid_count, resp, returned_ids>>'
                     = <<now, uuid_count, resp, returned_ids>>]_vars

\* the pass of this instant has removed an instance and kept one that was
\* stored before it
C28_Witness ==
    /\ wake = now + CLEANUP_INTERVAL
    /\ swept # {}
    /\ \E inst \in AllInstances(_registry) :
           /\ now - inst.registered_at >= HEARTBEAT_TIMEOUT - CLEANUP_INTERVAL
           /\ ~Stale(inst, now)

\* C29: a deregister answered 200 removes the instance with that id and
\* nothing else: every other instance stays where it was, unchanged, and a
\* key goes only when that instance was its last.
C29_DeregisterExact ==
    [][(resp = NoResp /\ resp'.op = "deregister" /\ resp'.status = 200) =>
          LET id == resp'.instance_id
              Others(inst) == inst.instance_id # id
              Left(e) == \E j \in DOMAIN e.instances : Others(e.instances[j])
          IN  /\ id \in StoredIds(_registry)
              /\ KeyList(_registry') = KeyList(SelectSeq(_registry, Left))
              /\ \A i \in DOMAIN _registry' :
                     _registry'[i].instances
                         = SelectSeq(Get(_registry, _registry'[i].name), Others)]_vars

\* the second of two instances of a service was deregistered and the first
\* is what the service's list holds
C29_Witness ==
    /\ Len(returned_ids) >= 2
    /\ resp.op = "deregister"
    /\ resp.status = 200
    /\ resp.instance_id = returned_ids[2]
    /\ resp.service_name \in Keys(_registry)
    /\ Ids_of(Get(_registry, resp.service_name)) = <<returned_ids[1]>>

InstById(reg, id) == CHOOSE inst \in AllInstances(reg) : inst.instance_id = id

\* C30: an instance that stays stored keeps its service_name, base_url and
\* registered_at and its place among the instances that stay; its
\* last_heartbeat changes only in a heartbeat for its id answered 200, to
\* the time of that call, and a heartbeat changes nothing else.
C30_Immutable ==
    [][LET common == StoredIds(_registry) \cap StoredIds(_registry')
           Both(inst) == inst.instance_id \in common
       IN  /\ \A id \in common :
                  LET a == InstById(_registry, id)
                      b == InstById(_registry', id)
                  IN  /\ b.service_name = a.service_name
                      /\ b.base_url = a.base_url
                      /\ b.registered_at = a.registered_at
                      /\ b.last_heartbeat # a.last_heartbeat =>
                             /\ resp = NoResp
                             /\ resp'.op = "heartbeat"
                             /\ resp'.status = 200
                             /\ resp'.instance_id = id
                             /\ b.last_heartbeat = now
           /\ \A s \in Keys(_registry) \cap Keys(_registry') :
                  Ids_of(SelectSeq(Get(_registry', s), Both))
                      = Ids_of(SelectSeq(Get(_registry, s), Both))
           /\ (resp = NoResp /\ resp'.op = "heartbeat") =>
                  /\ KeyList(_registry') = KeyList(_registry)
                  /\ \A i \in DOMAIN _registry :
                         /\ Ids_of(_registry'[i].instances) = Ids_of(_registry[i].instances)
                         /\ \A j \in DOMAIN _registry[i].instances :
                                _registry[i].instances[j].instance_id # resp'.instance_id
                                    => _registry'[i].instances[j] = _registry[i].instances[j]]_vars

\* a heartbeat was answered 200 for an instance whose service has another
\* instance, which keeps its older last_heartbeat
C30_Witness ==
    /\ resp.op = "heartbeat"
    /\ resp.status = 200
    /\ \E a, b \in AllInstances(_registry) :
           /\ a.instance_id = resp.instance_id
           /\ b.instance_id # a.instance_id
           /\ b.service_name = a.service_name
           /\ a.last_heartbeat = resp.at
           /\ b.last_heartbeat < resp.at

\* C22: every register call is answered 201 and creates an instance,
\* whatever its base_url.
C22_RegisterAlwaysSucceeds == resp.op = "register" => resp.status = 201

\* C22 as amended: a register call whose base_url is an http or https URL
\* is answered 201 and adds one instance, with a new id and registered_at =
\* last_heartbeat = the time of the call, to the list of its service; a call
\* with any other base_url is answered 422 and stores nothing.
C22_RegisterValidates ==
    [][(resp = NoResp /\ resp'.op = "register") =>
          LET u == resp'.base_url
          IN  IF (Len(u) > 7 /\ SubSeq(u, 1, 7) = "http://")
                 \/ (Len(u) > 8 /\ SubSeq(u, 1, 8) = "https://")
              THEN /\ resp'.status = 201
                   /\ resp'.instance_id \notin StoredIds(_registry)
                   /\ \E inst \in AllInstances(_registry') :
                          /\ inst.instance_id = resp'.instance_id
                          /\ inst.service_name = resp'.service_name
                          /\ inst.base_url = u
                          /\ inst.registered_at = now
                          /\ inst.last_heartbeat = now
                   /\ AllInstances(_registry') \ AllInstances(_registry)
                          = {InstById(_registry', resp'.instance_id)}
                   /\ AllInstances(_registry) \subseteq AllInstances(_registry')
              ELSE /\ resp'.status = 422
                   /\ _registry' = _registry
                   /\ uuid_count' = uuid_count
                   /\ returned_ids' = returned_ids]_vars

\* a register call with a base_url that is no http URL was answered 422
\* while an earlier registration is stored
C22_Witness ==
    /\ resp.op = "register"
    /\ resp.status = 422
    /\ resp.base_url \in BadUrls
    /\ _registry # <<>>

\* C23: a started registry is empty; a service resolves to none as long as
\* no register call for it has been answered since the latest start; a
\* heartbeat for an id issued before the latest start is answered 404 and
\* changes nothing, and no instance with such an id is ever stored.
C23_RestartForgets ==
    /\ [](\A s \in Services :
             (\A r \in since_restart : r.service_name # s)
                 => Resolve(_registry, s, now) = None)
    /\ [](StoredIds(_registry) \subseteq {r.instance_id : r \in since_restart})
    /\ [][(since_restart # {} /\ since_restart' = {}) => _registry' = <<>>]_vars
    /\ [][(/\ resp = NoResp
           /\ resp'.op = "heartbeat"
           /\ resp'.instance_id \in Range(returned_ids)
           /\ resp'.instance_id \notin {r.instance_id : r \in since_restart})
             => (resp'.status = 404 /\ _registry' = _registry)]_vars

\* a heartbeat for an id of the former process was answered 404 at a time
\* at which that registration would still be fresh, while another service
\* has registered again
C23_Witness ==
    /\ resp.op = "heartbeat"
    /\ resp.status = 404
    /\ resp.instance_id \in Range(returned_ids)
    /\ resp.instance_id \notin {r.instance_id : r \in since_restart}
    /\ resp.instance_id \notin swept
    /\ dereg_ok[resp.instance_id] = 0
    /\ now < HEARTBEAT_TIMEOUT
    /\ _registry # <<>>

\* the coroutines inside their critical section
InSection == {k \in co : k.pc = "locked"}

\* C24: at most one coroutine is inside its critical section, and one is
\* exactly when the lock is held; the registry is always what the sections
\* left so far produce when run one after the other, in the order they were
\* left; leaving a section of register adds its instance and removes none,
\* leaving one of deregister removes no other id, and leaving a sweep
\* removes no instance that is fresh at the sweep's time.
C24_Serializable ==
    /\ [](Cardinality(InSection) <= 1)
    /\ [](_registry_lock <=> InSection # {})
    /\ [](_registry = serial)
    /\ [][\A k \in InSection :
            k \notin co' =>
               /\ k.op = "register" =>
                     /\ k.instance_id \in StoredIds(_registry')
                     /\ StoredIds(_registry) \subseteq StoredIds(_registry')
               /\ k.op = "heartbeat" => StoredIds(_registry') = StoredIds(_registry)
               /\ k.op = "deregister" =>
                     StoredIds(_registry') = StoredIds(_registry) \ {k.instance_id}
               /\ k.op = "sweep" =>
                     StoredIds(_registry') =
                        {inst.instance_id : inst \in
                            {i \in AllInstances(_registry) :
                                ~Stale(i, k.current_time)}}]_vars

\* a sweep that has stale instances to remove is inside its section while
\* a register waits for the lock
C24_Witness ==
    \E k, d \in co :
        /\ k.pc = "locked"
        /\ k.op = "sweep"
        /\ \E inst \in AllInstances(_registry) : Stale(inst, k.current_time)
        /\ d.pc = "wait"
        /\ d.op = "register"

\* the instance ids for which a heartbeat loop of the process is running,
\* one entry per loop
RunningLoops ==
    (IF _heartbeat_task \in {"sleep", "post"}
     THEN {[referred |-> TRUE, hb_wake |-> hb_wake, instance_id |-> self_instance_id]}
     ELSE {})
    \cup {[referred |-> FALSE, hb_wake |-> l.hb_wake,
           instance_id |-> IF l.own THEN l.instance_id ELSE self_instance_id] :
             l \in orphans}

\* C31: no two heartbeat loops of the process run for the same instance; a
\* loop runs only after a successful register; and once deregister_service
\* has returned no heartbeat loop of the process is running.
C31_LoopLifecycle ==
    /\ \A a, b \in RunningLoops : a.instance_id = b.instance_id => a = b
    /\ \A a \in RunningLoops : a.instance_id \in Range(returned_ids)
    /\ caller = "down" => RunningLoops = {}

\* C32: once the shutdown of the registry has begun no sweep pass runs (the
\* sweeper's next sleep is not begun) before the process has ended.
C32_NoSweepAfterShutdown ==
    [][(shutting_down /\ shutting_down') => wake' = wake]_vars

\* C33: a read handler that has applied the liveness filter has released
\* the registry lock before: no coroutine holds the lock with its filter
\* applied.
C33_FilterOutsideLock ==
    \A k \in co : (k.op \in Reads /\ k.pc = "filtered") => ~_registry_lock

\* C34: at every instant the three reads give the same answer on the
\* registry as it is and on the registry a sweep pass at that instant would
\* leave; and the pass the sweeper runs changes no answer and removes no
\* instance that get_service_instances lists.
C34_SweepChangesNoAnswer ==
    /\ [](LET after == cleanup_locked(_registry, now)
          IN  /\ \A s \in Services :
                    get_locked(after, s, now) = get_locked(_registry, s, now)
              /\ list_all_locked(after, now) = list_all_locked(_registry, now)
              /\ status_locked(after, now) = status_locked(_registry, now))
    /\ [][wake' # wake =>
            /\ \A s \in Services :
                  get_locked(_registry', s, now) = get_locked(_registry, s, now)
            /\ list_all_locked(_registry', now) = list_all_locked(_registry, now)
            /\ status_locked(_registry', now) = status_locked(_registry, now)
            /\ \A s \in Services :
                  Range(get_locked(_registry, s, now).instances)
                      \subseteq AllInstances(_registry')]_vars

\* a pass has just removed a stale instance of a service and left a fresh
\* one of the same service
C34_Witness ==
    /\ wake = now + CLEANUP_INTERVAL
    /\ \E id \in swept : id \notin StoredIds(_registry)
    /\ \E i \in DOMAIN _registry :
          /\ Len(_registry[i].instances) = 1
          /\ \E id \in swept : \E r \in since_restart :
                r.instance_id = id /\ r.service_name = _registry[i].name
          /\ ~Stale(_registry[i].instances[1], now)

\* the ids whose registration, or whose latest heartbeat answered 200,
\* reached the registry less than HEARTBEAT_TIMEOUT ago, with no deregister
\* since: an instance whose heartbeats arrive with less than
\* HEARTBEAT_TIMEOUT between them is among these at every instant from its
\* registration to its deregistration
InContact == {v.instance_id : v \in visible} \cup {b.instance_id : b \in beat}

\* C35: an instance in contact is stored; no sweep pass removes it; and
\* every query for its service answers 200 and lists it.
C35_RegularNeverSwept ==
    /\ [](InContact \subseteq StoredIds(_registry))
    /\ [][wake' # wake => InContact \subseteq StoredIds(_registry')]_vars
    /\ [][(resp = NoResp /\ resp'.op = "get") =>
            \A id \in InContact :
                InstById(_registry, id).service_name = resp'.service_name =>
                    /\ resp'.status = 200
                    /\ \E k \in DOMAIN resp'.instances :
                           resp'.instances[k].instance_id = id]_vars

\* a query lists an instance that registered at least HEARTBEAT_TIMEOUT
\* before, has sent heartbeats since, and has been through a sweep pass
C35_Witness ==
    /\ resp.op = "get"
    /\ resp.status = 200
    /\ \E k \in DOMAIN resp.instances :
          /\ resp.at - resp.instances[k].registered_at >= HEARTBEAT_TIMEOUT
          /\ resp.instances[k].last_heartbeat > resp.instances[k].registered_at
          /\ resp.instances[k].instance_id \in InContact
    /\ wake > HEARTBEAT_TIMEOUT + CLEANUP_INTERVAL

\* C36: every stored instance has last_heartbeat >= registered_at, and no
\* step lowers the last_heartbeat of an instance that stays stored,
\* whatever the clock read by the calls that wait for the lock.
C36_HeartbeatMonotone ==
    /\ [](\A inst \in AllInstances(_registry) :
              inst.last_heartbeat >= inst.registered_at)
    /\ [][\A a \in AllInstances(_registry) : \A b \in AllInstances(_registry') :
              a.instance_id = b.instance_id => b.last_heartbeat >= a.last_heartbeat]_vars

\* a heartbeat for an id is inside its section while a heartbeat for the
\* same id, which read a later clock, waits for the lock
C36_Witness ==
    \E k \in co : \E i \in DOMAIN _waiters :
        /\ k.op = "heartbeat"
        /\ _waiters[i].op = "heartbeat"
        /\ k.instance_id = _waiters[i].instance_id
        /\ k.instance_id \in StoredIds(_registry)
        /\ k.current_time < _waiters[i].current_time

C37_WitnessForwarded ==
    /\ gw.route = "users_service_proxy"
    /\ Len(gw.sent) = 2
    /\ gw.sent[1].base = gw.resolved

\* C38: in the likes service, after any sequence of like_post, unlike_post
\* and removals by the validation worker, the score stored for a post is
\* the number of users in the post's like set, with no score entry when the
\* set is empty; and a user is in a post's like set exactly when the post
\* is in the user's liked set.
C38_ScoreIsLikeCount ==
    /\ \A p \in PostIds :
           IF likes_post[p] = {}
           THEN p \notin DOMAIN likes_score
           ELSE p \in DOMAIN likes_score /\ likes_score[p] = Cardinality(likes_post[p])
    /\ \A p \in PostIds : \A u \in Usernames :
           u \in likes_post[p] <=> p \in likes_user[u]

\* C39: the worker reserves a job only when every job it reserved before
\* has been deleted or buried; and a pass in which the resolver gave None
\* for the timelines service, or the post check ended with anything other
\* than 200 or 404, buries the job and leaves the like in place.
C39_ReservedJobsSettled ==
    [][/\ (worker.job = NoJob /\ worker'.job # NoJob) => reserved = {}
       /\ (worker.job # NoJob /\ worker'.job = NoJob
             /\ (worker'.resolved = None \/ worker'.check \notin {"", "200", "404"}))
          => /\ worker.job \in buried'
             /\ worker.job \notin reserved'
             /\ <<likes_post, likes_user, likes_score>>' =
                    <<likes_post, likes_user, likes_score>>]_vars

====
